---------------------------- MODULE Spec2Model ----------------------------
(***************************************************************************)
(* Shadow Drop: the claim protocol of the browser client (ClaimAirdrop /   *)
(* handleClaim), the client API wrappers, the account derivations and the  *)
(* vesting parameters sent at campaign creation.  The on-chain program,    *)
(* the off-chain backend handlers and the vesting calculator are not part  *)
(* of the client sources; they are modelled from the design document and   *)
(* are marked as such where they are defined.                              *)
(***************************************************************************)
EXTENDS Integers, Sequences, FiniteSets, TLC

(***************************************************************************)
(* Universe                                                                *)
(***************************************************************************)
Clients == {"c1", "c2"}

\* The recipient list of the campaign is [(A,100),(B,250),(C,50)]; "D" is in
\* no recipient list.  Wallets are the ones a client connects.
Recipients == {"A", "B", "C"}

Wallets == {"B", "C", "D"}

\* The campaign the clients claim from (its address).  Whether it is a native
\* (SOL) campaign, claimed through claimZkSimple, or an SPL-token campaign,
\* claimed through claimToken, is chosen when it is created.
Campaigns == {"k1"}

\* The clients whose user switches wallets while the page is open.
WalletSwitchers == {"c2"}

NoCampaign == "none"

\* Base-unit allocation of each recipient (recipients.amount).
Amount(w) == IF w = "A" THEN 100 ELSE IF w = "B" THEN 250 ELSE 50

\* What the authority deposited: a native campaign covers every allocation,
\* a token campaign was funded short of them.
Vault0(token) ==
    IF token THEN Amount("B") ELSE Amount("A") + Amount("B") + Amount("C")

\* Largest day the model clock reaches.
MaxDay == 2

(***************************************************************************)
(* Program constants                                                       *)
(***************************************************************************)
DaySeconds == 86400

DefaultDurationDays == 30

Groth16ProofBytes == 256

PublicInputBytes == 96

NullifierBytes == 32

PublicInputWireBytes == 108

\* An empty text field of the vesting form.
EmptyField == -1

(***************************************************************************)
(* Vesting parameters handleCreate sends (Dashboard.tsx 697-700).          *)
(* parseInt(text || default) * 86400 when vesting is enabled, else 0.      *)
(***************************************************************************)
ParseDays(field, dflt) == IF field = EmptyField THEN dflt ELSE field

vestingStartTs(enabled) == 0

vestingCliffSeconds(enabled, cliffDays) ==
    IF enabled THEN ParseDays(cliffDays, 0) * DaySeconds ELSE 0

vestingDurationSeconds(enabled, durationDays) ==
    IF enabled THEN ParseDays(durationDays, DefaultDurationDays) * DaySeconds ELSE 0

\* The vesting forms the model creates campaigns from.
InstantForm == [enabled |-> FALSE, cliffDays |-> EmptyField, durationDays |-> EmptyField]

VestingForms ==
    { InstantForm }
    \cup
    { [enabled |-> TRUE, cliffDays |-> EmptyField, durationDays |-> 2],
      [enabled |-> TRUE, cliffDays |-> 1, durationDays |-> EmptyField] }

CampaignOf(token, form) ==
    [ token_mint |-> token,
      start      |-> vestingStartTs(form.enabled),
      cliff      |-> vestingCliffSeconds(form.enabled, form.cliffDays),
      duration   |-> vestingDurationSeconds(form.enabled, form.durationDays) ]

(***************************************************************************)
(* Vesting Calculator (design document 4.5): the three cases, taken in the *)
(* order they are listed, the interpolation floored.                       *)
(***************************************************************************)
ClaimableNoCliffCheck(total, start, cliff, duration, now) ==
    IF now >= start + duration THEN total
    ELSE IF now < start + cliff THEN 0
    ELSE (total * (now - start - cliff)) \div (duration - cliff)

ClaimableCliffInclusive(total, start, cliff, duration, now) ==
    IF now <= start + cliff THEN 0
    ELSE IF now >= start + duration THEN total
    ELSE (total * (now - start - cliff)) \div (duration - cliff)

ClaimableFromStart(total, start, cliff, duration, now) ==
    IF now < start + cliff THEN 0
    ELSE IF now >= start + duration THEN total
    ELSE (total * (now - start)) \div duration

Claimable(total, start, cliff, duration, now) ==
    IF now < start + cliff THEN 0
    ELSE IF now >= start + duration THEN total
    ELSE (total * (now - start - cliff)) \div (duration - cliff)

(***************************************************************************)
(* Identifier derivation (pda.ts).  A derived address is the tuple of its  *)
(* seeds: the tag, the campaign and the remaining seed bytes (value and    *)
(* length), so two derivations agree exactly when their seeds agree.       *)
(***************************************************************************)
\* A campaign id of the model is two characters long.
deriveCampaignPDA(authority, campaignId) ==
    <<"campaign", authority, campaignId, "", 2>>

deriveVaultPDA(authority, campaignId) ==
    <<"vault", authority, campaignId, "", 2>>

deriveClaimRecordPDA(campaign, claimer) ==
    <<"claim", campaign, claimer, "", 32>>

\* The seeds in another order than the ledger's.
deriveNullifierRecordPDASwapped(campaign, nullifier) ==
    <<"nullifier", nullifier.val[1], nullifier.val[2], campaign, nullifier.len>>

deriveNullifierRecordPDA(campaign, nullifier) ==
    <<"nullifier", campaign, nullifier.val[1], nullifier.val[2], nullifier.len>>

(***************************************************************************)
(* Nullifier (design document 4.2): a function of the recipient's secret   *)
(* and the campaign.  The secret of recipient w in campaign k is the pair  *)
(* <<k, w>> itself, so distinct secrets give distinct nullifiers.          *)
(***************************************************************************)
NullifierOf(k, w) == <<k, w>>

(***************************************************************************)
(* hexToBytes (Dashboard.tsx 1561-1568): strips "0x", allocates            *)
(* length / 2 bytes (truncated) and parses two digits per byte.  A hex     *)
(* string is its length, its prefix flag and the value it encodes.         *)
(***************************************************************************)
Hex(bytes, prefixed, val) ==
    [ len |-> 2 * bytes + (IF prefixed THEN 2 ELSE 0), prefixed |-> prefixed, val |-> val ]

\* The "0x" prefix parsed as a byte instead of stripped: the value read
\* depends on how the string was written.
hexToBytesKeepsPrefix(hex) ==
    LET cleanLen == IF hex.prefixed THEN hex.len - 2 ELSE hex.len
    IN  [ len |-> cleanLen \div 2,
          val |-> IF hex.prefixed THEN <<"0x", hex.val>> ELSE hex.val ]

hexToBytes(hex) ==
    LET cleanLen == IF hex.prefixed THEN hex.len - 2 ELSE hex.len
    IN  [ len |-> cleanLen \div 2, val |-> hex.val ]


(***************************************************************************)
(* State                                                                   *)
(***************************************************************************)
VARIABLES
    now,            \* ledger clock, seconds
    campaign,       \* campaign -> token_mint, start, cliff, duration (fixed at creation)
    ledgerRecords,  \* Claim / Nullifier Records that exist on the ledger
    vault,          \* campaign -> remaining vault balance
    claimed,        \* recipients.claimed: the <<campaign, wallet>> rows whose flag is set
    wallet,         \* client -> connected wallet (publicKey)
    pc,             \* client -> where its handleClaim invocation stands
    loading,        \* client -> ClaimAirdrop.loading
    claimingId,     \* client -> ClaimAirdrop.claimingId
    eligibleCampaigns, \* client -> ClaimAirdrop.eligibleCampaigns (campaign addresses)
    fetchingCampaigns, \* client -> ClaimAirdrop.fetchingCampaigns
    fetchFor,       \* client -> wallets whose getEligibleCampaigns request is unanswered
    success,        \* client -> ClaimAirdrop.success
    toast,          \* client -> the last toast handleClaim raised
    tx,             \* client -> the claim instruction its invocation built
    txResult,       \* client -> what the ledger answered to that instruction
    lastCheck,      \* the last EligibilityResponse checkEligibility returned
    vest,           \* inputs and result of the vesting calculator run
    createPc,       \* where the handleCreate invocation stands
    createReq,      \* what that invocation parsed, derived and hashed
    createToast,    \* the last toast handleCreate raised
    chainCampaigns, \* the campaign accounts on the ledger
    store,          \* the campaigns and recipients the off-chain store holds
    pda,            \* two identifier derivations: their seeds and results
    freqRun,        \* two creations that differ in the vesting frequency only
    tree,           \* a recipient list, the seed of the secrets, and the builder's runs on them
    packed,         \* the PackedAccounts object, the insertOrGet calls made on it and what they returned
    formatted,      \* the ZkProof given to formatProofForSolana and what the call gave
    prover,         \* the singleton ShadowDropProver and the calls in flight on it
    deposit         \* the amounts of one CreateAirdrop form: the recipients text, the total field, what handleCreate sent

vars == << now, campaign, ledgerRecords, vault, claimed, wallet, pc,
           loading, claimingId, eligibleCampaigns, fetchingCampaigns, fetchFor, success,
           toast, tx, txResult, lastCheck, vest,
           createPc, createReq, createToast, chainCampaigns, store, pda, freqRun, tree, packed, formatted, prover, deposit >>

ledgerVars == << ledgerRecords, vault >>

vestVars == << vest >>

pdaVars == << pda >>

libVars == << freqRun, tree, packed, formatted, prover, deposit >>

createVars == << createPc, createReq, createToast, chainCampaigns, store >>

claimVars == << now, campaign, ledgerRecords, vault, claimed, wallet, pc,
                loading, claimingId, eligibleCampaigns, fetchingCampaigns, fetchFor,
                success, toast, tx, txResult, lastCheck >>

NoTx ==
    [ method |-> "none", campaign |-> NoCampaign, claimer |-> "", key |-> <<"", "">>,
      proofLen |-> 0, pubLen |-> 0, nullLen |-> 0, amount |-> 0,
      record |-> <<"", "", "", "", 0>>, recordAtOffer |-> FALSE ]

\* A toast is its level and title, and its description where that is the
\* error's own message.
NoToast == <<"none", "">>

NoCheck == [ eligible |-> FALSE, amount |-> -1, already_claimed |-> FALSE, asked |-> NoCampaign ]

NoSeeds == [ kind |-> "", key |-> << >>, last |-> << >>, program |-> "" ]

NoCreate ==
    [ campaignId |-> "", campaignPDA |-> <<"", "", "", "", 0>>,
      vaultPDA |-> <<"", "", "", "", 0>>, recipientList |-> << >>,
      merkleRoot |-> << >>, total |-> 0 ]

NoId == [ hash |-> << >>, program |-> "" ]

NoPda == [ left |-> NoSeeds, right |-> NoSeeds, leftId |-> NoId, rightId |-> NoId ]

NoSent == [ ledger |-> << >>, store |-> << >> ]

NoFreqRun == [ form |-> InstantForm, at |-> 0, left |-> "", right |-> "",
               leftSent |-> NoSent, rightSent |-> NoSent ]

NoBuild == [ error |-> "none", root |-> << >>, paths |-> << >> ]

NoProbe == [ leaf |-> << >>, index |-> 0, path |-> << >>, valid |-> FALSE ]

NoTree == [ recipients |-> << >>, seed |-> << 0, 0 >>, first |-> NoBuild, second |-> NoBuild,
            probe |-> NoProbe ]

NoMetas == [ remainingAccounts |-> << >>, packedStart |-> -1 ]

NoPacked == [ built |-> FALSE, systemAccounts |-> << >>, packedAccounts |-> << >>,
              accountMap |-> {}, nextIndex |-> 0, calls |-> << >>, returns |-> << >>,
              metas |-> NoMetas ]

NoZkProof == [ proof |-> << >>, publicInputs |-> << >> ]

NoFormat == [ threw |-> FALSE, groth16Proof |-> << >>, publicInputs |-> << >> ]

NoFormatted == [ proof |-> NoZkProof, called |-> FALSE, out |-> NoFormat ]

\* Most initialize calls and most generateProof calls made on the prover.
MaxInitCalls == 2

MaxProofCalls == 1

InitCallIds == 1..MaxInitCalls

ProofCallIds == 1..MaxProofCalls

\* proverInstance = null; no call made.  noir and backend hold the number of
\* the initialize call that constructed them, 0 for null.
NoProver ==
    [ exists |-> FALSE, initialized |-> FALSE, noir |-> 0, backend |-> 0,
      noirBuilt |-> 0, backendBuilt |-> 0,
      init |-> [ c \in InitCallIds |-> [ pc |-> "idle", circuit |-> "none" ] ],
      gen  |-> [ g \in ProofCallIds |-> [ pc |-> "idle", noir |-> 0, backend |-> 0 ] ] ]

\* The empty string of a text field that otherwise holds a decimal n / 10^d.
EmptyText == [ n |-> 0, d |-> -1 ]

NoDeposit == [ recipients |-> << >>, tokenType |-> "sol", tokenAmount |-> EmptyText,
               created |-> FALSE, lamports |-> 0, recipientList |-> << >> ]

NoVest == [ total |-> 0, start |-> 0, cliff |-> 0, duration |-> 0, now |-> 0, out |-> -1 ]

(***************************************************************************)
(* External ledger (design document 4.4, 5, 6): one atomic instruction     *)
(* that creates the record if absent and debits the vault.                 *)
(***************************************************************************)
RECURSIVE SumAmounts(_)
SumAmounts(S) ==
    IF S = {} THEN 0
    ELSE LET r == CHOOSE x \in S : TRUE IN r.amount + SumAmounts(S \ {r})

RecordAddresses == { r.pda : r \in ledgerRecords }

\* The ledger's own derivation of the record an instruction must name.
LedgerRecordAddress(ix) ==
    IF ix.method = "claimToken"
    THEN <<"claim", ix.campaign, ix.claimer, "", 32>>
    ELSE <<"nullifier", ix.campaign, ix.key[1], ix.key[2], ix.nullLen>>

WellFormed(ix) ==
    \/ ix.method = "claimToken"
    \/ /\ ix.method = "claimZkSimple"
       /\ ix.proofLen = Groth16ProofBytes
       /\ ix.pubLen = PublicInputBytes
       /\ ix.nullLen = NullifierBytes

LedgerVerdict(ix) ==
    IF ~WellFormed(ix) THEN "MalformedInstruction"
    ELSE IF ix.record # LedgerRecordAddress(ix) THEN "ConstraintSeeds"
    ELSE IF ix.record \in RecordAddresses THEN "AlreadyClaimed"
    ELSE IF ix.amount > vault[ix.campaign] THEN "VaultUnderfunded"
    ELSE "ok"

\* Whether the record guarding recipient w of campaign k exists.
RecordExists(k, w) ==
    IF campaign[k].token_mint
    THEN <<"claim", k, w, "", 32>> \in RecordAddresses
    ELSE <<"nullifier", k, NullifierOf(k, w)[1], NullifierOf(k, w)[2], NullifierBytes>>
             \in RecordAddresses

(***************************************************************************)
(* Off-chain backend.  The recipients table and its claimed flag are the   *)
(* migration's; the handlers that read it follow the design document:      *)
(* the off-chain copy is what is marked "claimed for future eligibility    *)
(* checks" (4.4) and what eligibility looks recipients up in (4.3).        *)
(***************************************************************************)
IsRecipient(k, w) == k \in Campaigns /\ w \in Recipients

CheckEligibilityResponse(k, w) ==
    [ eligible        |-> IsRecipient(k, w),
      amount          |-> IF IsRecipient(k, w) THEN Amount(w) ELSE -1,
      already_claimed |-> <<k, w>> \in claimed,
      asked           |-> k ]

EligibleCampaignsOf(w) ==
    { k \in Campaigns : IsRecipient(k, w) /\ <<k, w>> \notin claimed }

ProofOffered(k, w) == IsRecipient(k, w) /\ <<k, w>> \notin claimed

\* The byte sizes a prover response may come with: the sizes the claim
\* instruction takes (with and without a "0x" prefix), the documented
\* 108-byte public-input blob, and a short nullifier.
ProofShapes ==
    { [proof |-> Groth16ProofBytes, pub |-> PublicInputBytes, null |-> NullifierBytes, prefixed |-> FALSE],
      [proof |-> Groth16ProofBytes, pub |-> PublicInputBytes, null |-> NullifierBytes, prefixed |-> TRUE],
      [proof |-> Groth16ProofBytes, pub |-> PublicInputWireBytes, null |-> NullifierBytes, prefixed |-> FALSE],
      [proof |-> Groth16ProofBytes, pub |-> PublicInputBytes, null |-> NullifierBytes - 1, prefixed |-> FALSE] }

ZkProofResponse(k, w, shape) ==
    [ groth16_proof |-> Hex(shape.proof, shape.prefixed, <<"proof", w>>),
      public_inputs |-> Hex(shape.pub, shape.prefixed, <<"inputs", w>>),
      nullifier     |-> Hex(shape.null, shape.prefixed, NullifierOf(k, w)),
      amount        |-> Amount(w) ]


(***************************************************************************)
(* ClaimAirdrop (Dashboard.tsx 1497-1677)                                  *)
(***************************************************************************)
InitWith(forms) ==
    /\ now = 0
    /\ \E form \in forms, token \in BOOLEAN :
           campaign = [k \in Campaigns |-> CampaignOf(token, form)]
    /\ ledgerRecords = {}
    /\ vault = [k \in Campaigns |-> Vault0(campaign[k].token_mint)]
    /\ claimed = {}
    /\ wallet = [c \in Clients |-> "B"]
    /\ pc = [c \in Clients |-> "idle"]
    /\ loading = [c \in Clients |-> FALSE]
    /\ claimingId = [c \in Clients |-> NoCampaign]
    /\ eligibleCampaigns = [c \in Clients |-> {}]
    /\ fetchingCampaigns = [c \in Clients |-> TRUE]
    /\ fetchFor = [c \in Clients |-> {"B"}]
    /\ success = [c \in Clients |-> FALSE]
    /\ toast = [c \in Clients |-> NoToast]
    /\ tx = [c \in Clients |-> NoTx]
    /\ txResult = [c \in Clients |-> "none"]
    /\ lastCheck = NoCheck
    /\ createPc = "idle"
    /\ createReq = NoCreate
    /\ createToast = NoToast
    /\ chainCampaigns = {}
    /\ store = {}

\* The claim protocol on an instant (unvested) campaign.
Init == InitWith({InstantForm}) /\ vest = NoVest /\ pda = NoPda /\ freqRun = NoFreqRun /\ tree = NoTree /\ packed = NoPacked /\ formatted = NoFormatted /\ prover = NoProver /\ deposit = NoDeposit

\* The claim protocol on instant and vested campaigns, with time passing.
InitTimed == InitWith(VestingForms) /\ vest = NoVest /\ pda = NoPda /\ freqRun = NoFreqRun /\ tree = NoTree /\ packed = NoPacked /\ formatted = NoFormatted /\ prover = NoProver /\ deposit = NoDeposit

\* The browser page is (re)loaded, or the tab crashes and is reopened: every
\* piece of component state is lost and the mount effect fetches again.
Reload(c) ==
    /\ pc[c] # "idle" \/ ~fetchingCampaigns[c]
    /\ pc' = [pc EXCEPT ![c] = "idle"]
    /\ loading' = [loading EXCEPT ![c] = FALSE]
    /\ claimingId' = [claimingId EXCEPT ![c] = NoCampaign]
    /\ eligibleCampaigns' = [eligibleCampaigns EXCEPT ![c] = {}]
    /\ fetchingCampaigns' = [fetchingCampaigns EXCEPT ![c] = TRUE]
    /\ fetchFor' = [fetchFor EXCEPT ![c] = {wallet[c]}]
    /\ success' = [success EXCEPT ![c] = FALSE]
    /\ toast' = [toast EXCEPT ![c] = NoToast]
    /\ tx' = [tx EXCEPT ![c] = NoTx]
    /\ txResult' = [txResult EXCEPT ![c] = "none"]
    /\ UNCHANGED << now, campaign, ledgerVars, claimed, wallet, lastCheck, vestVars, createVars, pdaVars, libVars >>

\* useEffect on [publicKey] (1508-1530), first half: the wallet changes and
\* the effect starts a fetch for it; nothing cancels the fetch before it.
WalletChange(c, w) ==
    /\ pc[c] = "idle"
    /\ w # wallet[c]
    /\ wallet' = [wallet EXCEPT ![c] = w]
    /\ fetchingCampaigns' = [fetchingCampaigns EXCEPT ![c] = TRUE]
    /\ fetchFor' = [fetchFor EXCEPT ![c] = @ \cup {w}]
    /\ UNCHANGED << now, campaign, ledgerVars, claimed, pc, loading, claimingId,
                    eligibleCampaigns, success, toast, tx, txResult, lastCheck, vestVars, createVars, pdaVars, libVars >>

\* useEffect on [publicKey], second half: a getEligibleCampaigns answer
\* arrives (for whichever wallet it was asked) or the request fails.
FetchEligibleReturns(c, w) ==
    /\ w \in fetchFor[c]
    /\ fetchFor' = [fetchFor EXCEPT ![c] = @ \ {w}]
    /\ \/ eligibleCampaigns' = [eligibleCampaigns EXCEPT ![c] = EligibleCampaignsOf(w)]
       \/ eligibleCampaigns' = [eligibleCampaigns EXCEPT ![c] = {}]
    /\ fetchingCampaigns' = [fetchingCampaigns EXCEPT ![c] = FALSE]
    /\ UNCHANGED << now, campaign, ledgerVars, claimed, wallet, pc, loading, claimingId,
                    success, toast, tx, txResult, lastCheck, vestVars, createVars, pdaVars, libVars >>

\* "Back to Airdrops" (1711-1713)
DismissSuccess(c) ==
    /\ success[c]
    /\ success' = [success EXCEPT ![c] = FALSE]
    /\ UNCHANGED << now, campaign, ledgerVars, claimed, wallet, pc, loading, claimingId,
                    eligibleCampaigns, fetchingCampaigns, fetchFor, toast, tx, txResult,
                    lastCheck, vestVars, createVars, pdaVars, libVars >>

\* The catch branches of handleClaim (1660-1672), chosen by what the
\* error's text includes.
CatchBranchOnlyProcessed(error) ==
    IF error = "User rejected" THEN "cancelled"
    ELSE IF error = "already been processed" THEN "already"
    ELSE IF error = "Failed to generate proof" THEN "verification"
    ELSE "failed"

CatchBranch(error) ==
    IF error = "User rejected" THEN "cancelled"
    ELSE IF error \in {"already been processed", "AlreadyClaimed"} THEN "already"
    ELSE IF error = "Failed to generate proof" THEN "verification"
    ELSE "failed"

CatchRemovesCampaign(error) == CatchBranch(error) = "already"

CatchToast(error) ==
    IF CatchBranch(error) = "cancelled" THEN <<"info: Claim cancelled by user.", "">>
    ELSE IF CatchBranch(error) = "already" THEN <<"warning: Already Claimed", "">>
    ELSE IF CatchBranch(error) = "verification" THEN <<"error: Verification Failed", "">>
    ELSE <<"error: Claim failed", error>>

\* catch without the finally block: loading and claimingId are left set.
CatchNoFinally(c, k, error) ==
    /\ toast' = [toast EXCEPT ![c] = CatchToast(error)]
    /\ eligibleCampaigns' =
           [eligibleCampaigns EXCEPT ![c] = IF CatchRemovesCampaign(error) THEN @ \ {k} ELSE @]
    /\ pc' = [pc EXCEPT ![c] = "idle"]
    /\ tx' = [tx EXCEPT ![c] = NoTx]
    /\ txResult' = [txResult EXCEPT ![c] = "none"]
    /\ UNCHANGED << success, loading, claimingId >>

\* catch and finally of handleClaim (1660-1676) for the invocation of c on k.
CatchFinally(c, k, error) ==
    /\ toast' = [toast EXCEPT ![c] = CatchToast(error)]
    /\ eligibleCampaigns' =
           [eligibleCampaigns EXCEPT ![c] = IF CatchRemovesCampaign(error) THEN @ \ {k} ELSE @]
    /\ loading' = [loading EXCEPT ![c] = FALSE]
    /\ claimingId' = [claimingId EXCEPT ![c] = NoCampaign]
    /\ pc' = [pc EXCEPT ![c] = "idle"]
    /\ tx' = [tx EXCEPT ![c] = NoTx]
    /\ txResult' = [txResult EXCEPT ![c] = "none"]
    /\ UNCHANGED success

\* handleClaim without setLoading(true): the invocation starts and the
\* buttons stay enabled.
StartClaimWithoutLoading(c, k) ==
    /\ ~loading[c]
    /\ ~success[c]
    /\ ~fetchingCampaigns[c]
    /\ k \in eligibleCampaigns[c]
    /\ claimingId' = [claimingId EXCEPT ![c] = k]
    /\ pc' = [pc EXCEPT ![c] = "proving"]
    /\ toast' = [toast EXCEPT ![c] = NoToast]
    /\ UNCHANGED << now, campaign, ledgerVars, claimed, wallet, eligibleCampaigns, loading,
                    fetchingCampaigns, fetchFor, success, tx, txResult, lastCheck, vestVars, createVars, pdaVars, libVars >>

\* The Claim button (1789-1792) and the head of handleClaim (1532-1543):
\* the list is rendered only when no fetch is pending and no success screen
\* is shown, and the button is disabled while loading.
StartClaim(c, k) ==
    /\ ~loading[c]
    /\ ~success[c]
    /\ ~fetchingCampaigns[c]
    /\ k \in eligibleCampaigns[c]
    /\ loading' = [loading EXCEPT ![c] = TRUE]
    /\ claimingId' = [claimingId EXCEPT ![c] = k]
    /\ pc' = [pc EXCEPT ![c] = "proving"]
    /\ toast' = [toast EXCEPT ![c] = NoToast]
    /\ UNCHANGED << now, campaign, ledgerVars, claimed, wallet, eligibleCampaigns,
                    fetchingCampaigns, fetchFor, success, tx, txResult, lastCheck, vestVars, createVars, pdaVars, libVars >>

\* What generateZkProof (api 201-212) throws when the backend answers
\* without data, or cannot be reached.
ProofErrors(k, w) ==
    {"Failed to fetch", "Failed to generate ZK proof"}
    \cup (IF ~IsRecipient(k, w) THEN {"Failed to generate proof"} ELSE {})
    \cup (IF <<k, w>> \in claimed THEN {"AlreadyClaimed"} ELSE {})

ProofFails(c) ==
    /\ pc[c] = "proving"
    /\ \E error \in ProofErrors(claimingId[c], wallet[c]) :
           CatchFinally(c, claimingId[c], error)
    /\ UNCHANGED << now, campaign, ledgerVars, claimed, wallet, fetchingCampaigns,
                    fetchFor, lastCheck, vestVars, createVars, pdaVars, libVars >>

\* handleClaim from the proof to the instruction (1551-1646).
BuildClaimInstruction(k, w, proofData) ==
    LET groth16Proof == hexToBytes(proofData.groth16_proof)
        publicInputs == hexToBytes(proofData.public_inputs)
        nullifier    == hexToBytes(proofData.nullifier)
        nullifierRecordPDA == deriveNullifierRecordPDA(k, nullifier)
        claimRecordPDA == <<"claim", k, w, "", 32>>
        claimAmount  == proofData.amount
    IN  IF campaign[k].token_mint
        THEN [ method |-> "claimToken", campaign |-> k, claimer |-> w, key |-> <<w, "">>,
               proofLen |-> 0, pubLen |-> 0, nullLen |-> 0, amount |-> claimAmount,
               record |-> claimRecordPDA, recordAtOffer |-> RecordExists(k, w) ]
        ELSE [ method |-> "claimZkSimple", campaign |-> k, claimer |-> w, key |-> nullifier.val,
               proofLen |-> groth16Proof.len, pubLen |-> publicInputs.len,
               nullLen |-> nullifier.len, amount |-> claimAmount,
               record |-> nullifierRecordPDA, recordAtOffer |-> RecordExists(k, w) ]

ProofReturns(c) ==
    /\ pc[c] = "proving"
    /\ ProofOffered(claimingId[c], wallet[c])
    /\ \E shape \in ProofShapes :
           tx' = [tx EXCEPT ![c] = BuildClaimInstruction(claimingId[c], wallet[c],
                                       ZkProofResponse(claimingId[c], wallet[c], shape))]
    /\ pc' = [pc EXCEPT ![c] = "signing"]
    /\ UNCHANGED << now, campaign, ledgerVars, claimed, wallet, loading, claimingId,
                    eligibleCampaigns, fetchingCampaigns, fetchFor, success, toast,
                    txResult, lastCheck, vestVars, createVars, pdaVars, libVars >>

\* .rpc(): the wallet asks the user to sign.
SignApproved(c) ==
    /\ pc[c] = "signing"
    /\ pc' = [pc EXCEPT ![c] = "inflight"]
    /\ UNCHANGED << now, campaign, ledgerVars, claimed, wallet, loading, claimingId,
                    eligibleCampaigns, fetchingCampaigns, fetchFor, success, toast, tx,
                    txResult, lastCheck, vestVars, createVars, pdaVars, libVars >>

SignRejected(c) ==
    /\ pc[c] = "signing"
    /\ CatchFinally(c, claimingId[c], "User rejected")
    /\ UNCHANGED << now, campaign, ledgerVars, claimed, wallet, fetchingCampaigns,
                    fetchFor, lastCheck, vestVars, createVars, pdaVars, libVars >>

\* .rpc(): the transaction never reaches the ledger.
TxDropped(c) ==
    /\ pc[c] = "inflight"
    /\ CatchFinally(c, claimingId[c], "Failed to fetch")
    /\ UNCHANGED << now, campaign, ledgerVars, claimed, wallet, fetchingCampaigns,
                    fetchFor, lastCheck, vestVars, createVars, pdaVars, libVars >>

\* The ledger runs the instruction, atomically.
LedgerExecute(c) ==
    /\ pc[c] = "inflight"
    /\ LET ix == tx[c]
           verdict == LedgerVerdict(ix)
       IN  /\ txResult' = [txResult EXCEPT ![c] = verdict]
           /\ IF verdict = "ok"
              THEN /\ ledgerRecords' = ledgerRecords \cup
                          { [ pda |-> ix.record, campaign |-> ix.campaign, key |-> ix.key,
                              amount |-> ix.amount ] }
                   /\ vault' = [vault EXCEPT ![ix.campaign] = @ - ix.amount]
              ELSE UNCHANGED << ledgerRecords, vault >>
    /\ pc' = [pc EXCEPT ![c] = "confirming"]
    /\ UNCHANGED << now, campaign, claimed, wallet, loading, claimingId, eligibleCampaigns,
                    fetchingCampaigns, fetchFor, success, toast, tx, lastCheck, vestVars, createVars, pdaVars, libVars >>

\* markClaimed reached whatever .rpc() answered.
RpcReturnsThenMarks(c) ==
    /\ pc[c] = "confirming"
    /\ pc' = [pc EXCEPT ![c] = "marking"]
    /\ UNCHANGED << loading, claimingId, eligibleCampaigns, success, toast, tx, txResult >>
    /\ UNCHANGED << now, campaign, ledgerVars, claimed, wallet, fetchingCampaigns,
                    fetchFor, lastCheck, vestVars, createVars, pdaVars, libVars >>

\* .rpc() resolves with the signature, and handleClaim goes on to
\* markClaimed (1648-1652), or rejects with the ledger's error.
RpcReturns(c) ==
    /\ pc[c] = "confirming"
    /\ IF txResult[c] = "ok"
       THEN /\ pc' = [pc EXCEPT ![c] = "marking"]
            /\ UNCHANGED << loading, claimingId, eligibleCampaigns, success, toast, tx, txResult >>
       ELSE CatchFinally(c, claimingId[c], txResult[c])
    /\ UNCHANGED << now, campaign, ledgerVars, claimed, wallet, fetchingCampaigns,
                    fetchFor, lastCheck, vestVars, createVars, pdaVars, libVars >>

\* markClaimed (api 157-167) answered with success: the backend sets the
\* row's flag; then 1654-1659 and finally.
MarkClaimedReturns(c) ==
    /\ pc[c] = "marking"
    /\ claimed' = claimed \cup { <<claimingId[c], tx[c].claimer>> }
    /\ eligibleCampaigns' = [eligibleCampaigns EXCEPT ![c] = @ \ {claimingId[c]}]
    /\ success' = [success EXCEPT ![c] = TRUE]
    /\ loading' = [loading EXCEPT ![c] = FALSE]
    /\ claimingId' = [claimingId EXCEPT ![c] = NoCampaign]
    /\ pc' = [pc EXCEPT ![c] = "idle"]
    /\ tx' = [tx EXCEPT ![c] = NoTx]
    /\ txResult' = [txResult EXCEPT ![c] = "none"]
    /\ UNCHANGED << now, campaign, ledgerVars, wallet, fetchingCampaigns, fetchFor, toast,
                    lastCheck, vestVars, createVars, pdaVars, libVars >>

\* markClaimed throws: the request failed or the backend answered
\* success = false.
MarkClaimedFails(c) ==
    /\ pc[c] = "marking"
    /\ CatchFinally(c, claimingId[c], "Failed to mark as claimed")
    /\ UNCHANGED << now, campaign, ledgerVars, claimed, wallet, fetchingCampaigns,
                    fetchFor, lastCheck, vestVars, createVars, pdaVars, libVars >>

\* checkEligibility (api 141-152) answered with data.
CheckEligibility(k, w) ==
    /\ lastCheck' = CheckEligibilityResponse(k, w)
    /\ lastCheck' # lastCheck
    /\ UNCHANGED << now, campaign, ledgerVars, claimed, wallet, pc, loading, claimingId,
                    eligibleCampaigns, fetchingCampaigns, fetchFor, success, toast, tx,
                    txResult, vestVars, createVars, pdaVars, libVars >>

\* Time passes on the ledger.
Tick ==
    /\ now < MaxDay * DaySeconds
    /\ now' = now + DaySeconds
    /\ UNCHANGED << campaign, ledgerVars, claimed, wallet, pc, loading, claimingId,
                    eligibleCampaigns, fetchingCampaigns, fetchFor, success, toast, tx,
                    txResult, lastCheck, vestVars, createVars, pdaVars, libVars >>

\* Two clients race; the ledger clock is not observed.
Next ==
    \/ \E c \in Clients : Reload(c)
    \/ \E c \in WalletSwitchers, w \in Wallets : WalletChange(c, w)
    \/ \E c \in Clients, w \in Wallets : FetchEligibleReturns(c, w)
    \/ \E c \in Clients : DismissSuccess(c)
    \/ \E c \in Clients, k \in Campaigns : StartClaim(c, k)
    \/ \E c \in Clients : ProofFails(c)
    \/ \E c \in Clients : ProofReturns(c)
    \/ \E c \in Clients : SignApproved(c)
    \/ \E c \in Clients : SignRejected(c)
    \/ \E c \in Clients : TxDropped(c)
    \/ \E c \in Clients : LedgerExecute(c)
    \/ \E c \in Clients : RpcReturns(c)
    \/ \E c \in Clients : MarkClaimedReturns(c)
    \/ \E c \in Clients : MarkClaimedFails(c)

Spec == Init /\ [][Next]_vars

\* One client claims, reloads and asks for eligibility while time passes.
SoloClients == {"c1"}

NextTimed ==
    \/ \E c \in SoloClients : Reload(c)
    \/ \E c \in SoloClients, w \in Wallets : FetchEligibleReturns(c, w)
    \/ \E c \in SoloClients : DismissSuccess(c)
    \/ \E c \in SoloClients, k \in Campaigns : StartClaim(c, k)
    \/ \E c \in SoloClients : ProofFails(c)
    \/ \E c \in SoloClients : ProofReturns(c)
    \/ \E c \in SoloClients : SignApproved(c)
    \/ \E c \in SoloClients : SignRejected(c)
    \/ \E c \in SoloClients : TxDropped(c)
    \/ \E c \in SoloClients : LedgerExecute(c)
    \/ \E c \in SoloClients : RpcReturns(c)
    \/ \E c \in SoloClients : MarkClaimedReturns(c)
    \/ \E c \in SoloClients : MarkClaimedFails(c)
    \/ \E k \in Campaigns, w \in Wallets : CheckEligibility(k, w)
    \/ Tick

SpecTimed == InitTimed /\ [][NextTimed]_vars


(***************************************************************************)
(* The vesting calculator on its own: inputs are drawn from a small grid   *)
(* and from the design document's boundary vectors, then the calculator    *)
(* runs, and the clock of the run may advance and the calculator run again.*)
(***************************************************************************)
MaxTotal == 3

MaxStart == 1

MaxSpan == 3

VestGrid ==
    [ total : 0..MaxTotal, start : 0..MaxStart, cliff : 0..MaxSpan,
      duration : 0..MaxSpan, now : 0..(MaxStart + MaxSpan + 1), out : {-1} ]

BoundaryVectors ==
    [ total : {1000}, start : {0}, cliff : {86400}, duration : {2592000},
      now : {0, 86400, 2592000, 1296000 + 86400}, out : {-1} ]

InitVest ==
    /\ InitWith({InstantForm})
    /\ campaign["k1"].token_mint = FALSE
    /\ vest \in VestGrid \cup BoundaryVectors
    /\ pda = NoPda
    /\ freqRun = NoFreqRun
    /\ tree = NoTree
    /\ packed = NoPacked
    /\ formatted = NoFormatted
    /\ prover = NoProver
    /\ deposit = NoDeposit

VestCompute ==
    /\ vest.out = -1
    /\ vest' = [vest EXCEPT !.out = Claimable(vest.total, vest.start, vest.cliff,
                                              vest.duration, vest.now)]
    /\ UNCHANGED << now, campaign, ledgerVars, claimed, wallet, pc, loading, claimingId,
                    eligibleCampaigns, fetchingCampaigns, fetchFor, success, toast, tx,
                    txResult, lastCheck, createVars, pdaVars, libVars >>

VestAdvance ==
    /\ vest.out # -1
    /\ vest.now < MaxStart + MaxSpan + 1
    /\ vest' = [vest EXCEPT !.now = @ + 1, !.out = -1]
    /\ UNCHANGED << now, campaign, ledgerVars, claimed, wallet, pc, loading, claimingId,
                    eligibleCampaigns, fetchingCampaigns, fetchFor, success, toast, tx,
                    txResult, lastCheck, createVars, pdaVars, libVars >>

NextVest == VestCompute \/ VestAdvance

SpecVest == InitVest /\ [][NextVest]_vars


(***************************************************************************)
(* Commitment Builder (design document 4.1; merkle.ts is imported by       *)
(* pda.ts).  A hash is the tuple of what was hashed, so two hashes are     *)
(* equal exactly when their inputs are.                                    *)
(***************************************************************************)
\* Depth of the tree the model builds (the circuit takes 8 siblings).
TreeDepth == 2

\* generateSecret() draws from 1..MaxSecret.
MaxSecret == 2

Secrets == 1..MaxSecret

ZERO_LEAF == <<"", 0, 0>>

\* A leaf hash that leaves the amount out.
FieldHashWithoutAmount(address, amount, secret) == <<address, 0, secret>>

FieldHash(address, amount, secret) == <<address, amount, secret>>

HashPair(left, right) == <<left, right>>

\* The next power of two >= count.
RECURSIVE PowerOfTwoFrom(_, _)
PowerOfTwoFrom(p, count) == IF p >= count THEN p ELSE PowerOfTwoFrom(2 * p, count)

PaddedCount(count) == PowerOfTwoFrom(1, count)

\* The levels of a tree over a power-of-two number of leaves.
RECURSIVE LevelsOver(_)
LevelsOver(count) == IF count <= 1 THEN 0 ELSE 1 + LevelsOver(count \div 2)

\* Step 3: pad with ZERO_LEAF up to the next power of two >= count.
PadLeaves(leaves) ==
    [ i \in 1..PaddedCount(Len(leaves)) |-> IF i <= Len(leaves) THEN leaves[i] ELSE ZERO_LEAF ]

\* The root of a tree of the given level over zero leaves only.
RECURSIVE ZeroNode(_)
ZeroNode(level) ==
    IF level = 0 THEN ZERO_LEAF ELSE HashPair(ZeroNode(level - 1), ZeroNode(level - 1))

\* The zero-sibling levels that bring a tree of the given level to the
\* fixed depth: its root and the siblings on the way.
RECURSIVE LiftToDepth(_, _)
LiftToDepth(node, level) ==
    IF level >= TreeDepth THEN node
    ELSE LiftToDepth(HashPair(node, ZeroNode(level)), level + 1)

\* A path that ends where the padded list's own tree ends.
ZeroPathOmitted(level) == << >>

RECURSIVE ZeroPath(_)
ZeroPath(level) ==
    IF level >= TreeDepth THEN << >> ELSE << ZeroNode(level) >> \o ZeroPath(level + 1)

NextLevel(nodes) ==
    [ i \in 1..(Len(nodes) \div 2) |-> HashPair(nodes[2 * i - 1], nodes[2 * i]) ]

RECURSIVE RootOf(_)
RootOf(nodes) == IF Len(nodes) = 1 THEN nodes[1] ELSE RootOf(NextLevel(nodes))

\* The siblings of the leaf at index (from 0), bottom-up.
RECURSIVE PathOf(_, _)
PathOf(nodes, index) ==
    IF Len(nodes) = 1 THEN << >>
    ELSE << nodes[(IF index % 2 = 0 THEN index + 1 ELSE index - 1) + 1] >>
             \o PathOf(NextLevel(nodes), index \div 2)

RECURSIVE Recompute(_, _, _)
Recompute(node, path, index) ==
    IF Len(path) = 0 THEN node
    ELSE Recompute(IF index % 2 = 0 THEN HashPair(node, Head(path))
                                    ELSE HashPair(Head(path), node),
                   Tail(path), index \div 2)

\* The leaves a root of the given depth was built over, left to right.
RECURSIVE LeavesUnder(_, _)
LeavesUnder(node, depth) ==
    IF depth = 0 THEN << node >>
    ELSE LeavesUnder(node[1], depth - 1) \o LeavesUnder(node[2], depth - 1)

RealLeaves(root) == SelectSeq(LeavesUnder(root, TreeDepth), LAMBDA l : l # ZERO_LEAF)

LeavesOf(recipientsWithSecrets) ==
    [ i \in 1..Len(recipientsWithSecrets) |->
        FieldHash(recipientsWithSecrets[i].wallet, recipientsWithSecrets[i].amount,
                  recipientsWithSecrets[i].secret) ]

ValidRecipients(list) ==
    /\ Len(list) > 0
    /\ \A i \in 1..Len(list) : list[i].amount > 0

buildMerkleTreeUnchecked(recipientsWithSecrets) ==
    LET padded == PadLeaves(LeavesOf(recipientsWithSecrets))
        levels == LevelsOver(Len(padded))
    IN  [ error |-> "",
          root  |-> LiftToDepth(RootOf(padded), levels),
          paths |-> [ i \in 1..Len(recipientsWithSecrets) |->
                        PathOf(padded, i - 1) \o ZeroPath(levels) ] ]

buildMerkleTree(recipientsWithSecrets) ==
    IF ~ValidRecipients(recipientsWithSecrets)
    THEN [ error |-> "InvalidInput", root |-> << >>, paths |-> << >> ]
    ELSE buildMerkleTreeUnchecked(recipientsWithSecrets)

\* generateMerkleRoot (pda.ts 78-90): the secrets it drew and the paths of
\* the tree are dropped, only the root is returned.
WithSecrets(recipients, secrets) ==
    [ i \in 1..Len(recipients) |->
        [ wallet |-> recipients[i].wallet, amount |-> recipients[i].amount,
          secret |-> secrets[i] ] ]

generateMerkleRootUnchecked(recipients, secrets) ==
    [ error |-> "",
      root  |-> buildMerkleTreeUnchecked(WithSecrets(recipients, secrets)).root ]

generateMerkleRoot(recipients, secrets) ==
    [ error |-> buildMerkleTree(WithSecrets(recipients, secrets)).error,
      root  |-> buildMerkleTree(WithSecrets(recipients, secrets)).root ]

(***************************************************************************)
(* CreateAirdrop.handleCreate (Dashboard.tsx 631-799).  A recipient line   *)
(* is a wallet and an amount written with one digit more than the token    *)
(* has decimals, so Math.floor(amount * 10^decimals) is tenths \div 10.    *)
(***************************************************************************)
Authority == "W"

CampaignIds == {"n1", "n2"}

\* The authority creates campaigns until the store holds this many.
MaxCampaigns == 1

RecipientTexts ==
    { << >>,
      << [wallet |-> "A", tenths |-> 1000], [wallet |-> "B", tenths |-> 2500] >>,
      << [wallet |-> "B", tenths |-> 2500], [wallet |-> "B", tenths |-> 2500] >>,
      << [wallet |-> "A", tenths |-> 1000], [wallet |-> "B", tenths |-> 0] >>,
      << [wallet |-> "A", tenths |-> 1000], [wallet |-> "C", tenths |-> 5] >> }

RECURSIVE TotalTenths(_)
TotalTenths(text) ==
    IF Len(text) = 0 THEN 0 ELSE Head(text).tenths + TotalTenths(Tail(text))

\* The wizard: "Continue" of the Recipients step is disabled while
\* recipientCount is 0 (1066), that of the Settings step while tokenAmount,
\* the total when positive (628), is empty (1391).
ReviewReachable(text) == Len(text) # 0 /\ TotalTenths(text) > 0

\* Lines 672-679 and 695.
ParseRecipients(text) ==
    [ i \in 1..Len(text) |-> [wallet |-> text[i].wallet, amount |-> text[i].tenths \div 10] ]

Lamports(text) == TotalTenths(text) \div 10

\* The ledger's create-campaign instruction: the campaign account is
\* created once.
LedgerCreateVerdict(req) ==
    IF req.campaignPDA \in { c.address : c \in chainCampaigns } THEN "AlreadyInUse" ELSE "ok"

\* The recipients table holds one row per (campaign_address, wallet).
RECURSIVE UniqueByWallet(_)
UniqueByWallet(list) ==
    IF Len(list) = 0 THEN << >>
    ELSE LET init == UniqueByWallet(SubSeq(list, 1, Len(list) - 1))
             last == list[Len(list)]
         IN  IF \E i \in 1..Len(init) : init[i].wallet = last.wallet
             THEN init ELSE Append(init, last)

\* What the store keeps of a createCampaign request, which carries the
\* root and the recipients' wallets and amounts: the secrets, leaf indices
\* and paths are those of the tree the store builds over its rows.
StoredCampaign(req, secrets) ==
    [ address     |-> req.campaignPDA,
      merkle_root |-> req.merkleRoot,
      recipients  |->
        [ i \in 1..Len(UniqueByWallet(req.recipientList)) |->
            [ wallet      |-> UniqueByWallet(req.recipientList)[i].wallet,
              amount      |-> UniqueByWallet(req.recipientList)[i].amount,
              secret      |-> secrets[i],
              leaf_index  |-> i - 1,
              merkle_path |->
                buildMerkleTreeUnchecked(
                    WithSecrets(UniqueByWallet(req.recipientList), secrets)).paths[i] ] ] ]

\* handleCreate up to the wallet prompt: balance check, parsing, campaign
\* id, identifiers, merkle root.
CreateStart(text, campaignId, secrets, balanceOk) ==
    /\ createPc = "idle"
    /\ Cardinality(store) < MaxCampaigns
    /\ ReviewReachable(text)
    /\ IF ~balanceOk
       THEN /\ createToast' = <<"error: Transaction failed!", "Insufficient balance">>
            /\ UNCHANGED << createPc, createReq >>
       ELSE IF generateMerkleRoot(ParseRecipients(text), secrets).error # ""
       THEN /\ createToast' = <<"error: Transaction failed!",
                                generateMerkleRoot(ParseRecipients(text), secrets).error>>
            /\ UNCHANGED << createPc, createReq >>
       ELSE /\ createToast' = NoToast
            /\ createPc' = "signing"
            /\ createReq' =
                 [ campaignId    |-> campaignId,
                   campaignPDA   |-> deriveCampaignPDA(Authority, campaignId),
                   vaultPDA      |-> deriveVaultPDA(Authority, campaignId),
                   recipientList |-> ParseRecipients(text),
                   merkleRoot    |-> generateMerkleRoot(ParseRecipients(text), secrets).root,
                   total         |-> Lamports(text) ]
    /\ UNCHANGED << claimVars, vestVars, pdaVars, libVars, chainCampaigns, store >>

\* The user declines to sign (791-792).
CreateRejected ==
    /\ createPc = "signing"
    /\ createPc' = "idle"
    /\ createReq' = NoCreate
    /\ createToast' = <<"info: Transaction rejected by user.", "">>
    /\ UNCHANGED << claimVars, vestVars, pdaVars, libVars, chainCampaigns, store >>

\* .rpc() returns (707-758): the ledger ran the instruction.
CreateRpcReturns ==
    /\ createPc = "signing"
    /\ IF LedgerCreateVerdict(createReq) = "ok"
       THEN /\ chainCampaigns' = chainCampaigns \cup
                  { [ address |-> createReq.campaignPDA, vault |-> createReq.vaultPDA,
                      merkle_root |-> createReq.merkleRoot, total |-> createReq.total ] }
            /\ createPc' = "saving"
            /\ UNCHANGED << createReq, createToast >>
       ELSE /\ createToast' = <<"error: Transaction failed!", LedgerCreateVerdict(createReq)>>
            /\ createPc' = "idle"
            /\ createReq' = NoCreate
            /\ UNCHANGED chainCampaigns
    /\ UNCHANGED << claimVars, vestVars, pdaVars, libVars, store >>

\* createCampaign (765-788) is answered: the store holds the campaign.
SaveReturns(secrets) ==
    /\ createPc = "saving"
    /\ store' = store \cup { StoredCampaign(createReq, secrets) }
    /\ createPc' = "idle"
    /\ createReq' = NoCreate
    /\ createToast' = <<"success", "">>
    /\ UNCHANGED << claimVars, vestVars, pdaVars, libVars, chainCampaigns >>

\* createCampaign throws (789-795).
SaveFails ==
    /\ createPc = "saving"
    /\ createPc' = "idle"
    /\ createReq' = NoCreate
    /\ createToast' = <<"error: Transaction failed!", "Failed to create campaign">>
    /\ UNCHANGED << claimVars, vestVars, pdaVars, libVars, chainCampaigns, store >>

InitCreate ==
    /\ InitWith({InstantForm})
    /\ campaign["k1"].token_mint = FALSE
    /\ vest = NoVest
    /\ pda = NoPda
    /\ freqRun = NoFreqRun
    /\ tree = NoTree
    /\ packed = NoPacked
    /\ formatted = NoFormatted
    /\ prover = NoProver
    /\ deposit = NoDeposit

NextCreate ==
    \/ \E text \in RecipientTexts, campaignId \in CampaignIds, balanceOk \in BOOLEAN :
          \E secrets \in [1..Len(text) -> Secrets] :
              CreateStart(text, campaignId, secrets, balanceOk)
    \/ CreateRejected
    \/ CreateRpcReturns
    \/ \E secrets \in [1..Len(UniqueByWallet(createReq.recipientList)) -> Secrets] :
          SaveReturns(secrets)
    \/ SaveFails

SpecCreate == InitCreate /\ [][NextCreate]_vars

(***************************************************************************)
(* The seed bytes of the four derivations (pda.ts 13-64, Dashboard.tsx     *)
(* 1599-1602).  findProgramAddressSync hashes the seeds one after another  *)
(* with no separator or length between them, then the bump it searched     *)
(* for and the program id; the bump is determined by the seeds and the     *)
(* program id.  The hash is the sequence of bytes that was hashed, so two  *)
(* addresses are equal exactly when the hashed bytes and the program are.  *)
(* A byte is a one-character string.                                       *)
(***************************************************************************)
KeyBytes == 2
MaxSeedLen == 2

SeedAlphabet == {"c", "n"}

PROGRAM_ID == "7wjDq"

\* program.programId is the address in the IDL the hook loaded: PROGRAM_ID
\* or the address of another deployment.
ProgramIds == {PROGRAM_ID, "idl"}

\* Buffer.from(tag)
TagBytes(tag) ==
    CASE tag = "campaign"  -> <<"c", "a", "m", "p", "a", "i", "g", "n">>
      [] tag = "vault"     -> <<"v", "a", "u", "l", "t">>
      [] tag = "claim"     -> <<"c", "l", "a", "i", "m">>
      [] tag = "nullifier" -> <<"n", "u", "l", "l", "i", "f", "i", "e", "r">>

findProgramAddressSync(seeds, programId) ==
    [ hash |-> seeds[1] \o seeds[2] \o seeds[3], program |-> programId ]

campaignSeeds(authority, campaignId) ==
    << TagBytes("campaign"), authority, campaignId >>

\* The vault under the campaign's tag.
vaultSeedsCampaignTag(authority, campaignId) ==
    << TagBytes("campaign"), authority, campaignId >>

vaultSeeds(authority, campaignId) ==
    << TagBytes("vault"), authority, campaignId >>

claimSeeds(campaignKey, claimer) ==
    << TagBytes("claim"), campaignKey, claimer >>

nullifierSeeds(campaignKey, nullifier) ==
    << TagBytes("nullifier"), campaignKey, nullifier >>

DeriveKinds == {"campaign", "vault", "claim", "nullifier", "claimInline"}

TagOf(kind) == IF kind = "claimInline" THEN "claim" ELSE kind

PublicKeys == [1..KeyBytes -> SeedAlphabet]

ByteStrings == UNION { [1..n -> SeedAlphabet] : n \in 0..MaxSeedLen }

\* What one call is made with: a public key, then a campaign id, a second
\* public key or the nullifier bytes.
SeedInputs ==
    { s \in [ kind : DeriveKinds, key : PublicKeys, last : ByteStrings, program : ProgramIds ] :
          /\ s.kind \in {"claim", "claimInline"} => s.last \in PublicKeys
          /\ s.kind # "claimInline" => s.program = PROGRAM_ID }

DeriveBy(s) ==
    CASE s.kind = "campaign"    -> findProgramAddressSync(campaignSeeds(s.key, s.last), PROGRAM_ID)
      [] s.kind = "vault"       -> findProgramAddressSync(vaultSeeds(s.key, s.last), PROGRAM_ID)
      [] s.kind = "claim"       -> findProgramAddressSync(claimSeeds(s.key, s.last), PROGRAM_ID)
      [] s.kind = "nullifier"   -> findProgramAddressSync(nullifierSeeds(s.key, s.last), PROGRAM_ID)
      [] s.kind = "claimInline" -> findProgramAddressSync(claimSeeds(s.key, s.last), s.program)

InitDerive ==
    /\ InitWith({InstantForm})
    /\ campaign["k1"].token_mint = FALSE
    /\ vest = NoVest
    /\ \E l \in SeedInputs, r \in SeedInputs :
           pda = [ left |-> l, right |-> r, leftId |-> NoId, rightId |-> NoId ]
    /\ freqRun = NoFreqRun
    /\ tree = NoTree
    /\ packed = NoPacked
    /\ formatted = NoFormatted
    /\ prover = NoProver
    /\ deposit = NoDeposit

DeriveLeft ==
    /\ pda.leftId = NoId
    /\ pda' = [pda EXCEPT !.leftId = DeriveBy(pda.left)]
    /\ UNCHANGED << claimVars, vestVars, createVars, libVars >>

DeriveRight ==
    /\ pda.rightId = NoId
    /\ pda' = [pda EXCEPT !.rightId = DeriveBy(pda.right)]
    /\ UNCHANGED << claimVars, vestVars, createVars, libVars >>

\* The same call made again, after whatever else was derived.
DeriveAgain ==
    /\ pda.leftId # NoId
    /\ pda.rightId # NoId
    /\ pda' = [pda EXCEPT !.leftId = DeriveBy(pda.left), !.rightId = NoId]
    /\ UNCHANGED << claimVars, vestVars, createVars, libVars >>

NextDerive == DeriveLeft \/ DeriveRight \/ DeriveAgain

SpecDerive == InitDerive /\ [][NextDerive]_vars

(***************************************************************************)
(* The vesting step of the wizard (Dashboard.tsx 408, 1358-1377) and what  *)
(* handleCreate sends of it (697-700, 779-783).  vestingFrequency is       *)
(* component state like the cliff and the duration; handleCreate runs with *)
(* all three in scope.  Two creations are made from one form at one time   *)
(* of day, each with its own frequency.                                    *)
(***************************************************************************)
Frequencies == {"daily", "weekly", "monthly"}

PeriodDays(vestingFrequency) ==
    CASE vestingFrequency = "daily"   -> 1
      [] vestingFrequency = "weekly"  -> 7
      [] vestingFrequency = "monthly" -> 30

MaxFormDays == 8

FormFields == {EmptyField} \cup 0..MaxFormDays

FrequencyForms == [ enabled : BOOLEAN, cliffDays : FormFields, durationDays : FormFields ]

\* The duration rounded up to whole release periods.
VestingSentWholePeriods(form, vestingFrequency, at) ==
    LET cliff    == vestingCliffSeconds(form.enabled, form.cliffDays)
        days     == ParseDays(form.durationDays, DefaultDurationDays)
        period   == PeriodDays(vestingFrequency)
        rounded  == ((days + period - 1) \div period) * period
        duration == IF form.enabled THEN rounded * DaySeconds ELSE 0
    IN  [ ledger |-> << vestingStartTs(form.enabled), cliff, duration >>,
          store  |-> << IF form.enabled THEN "vested" ELSE "instant", at, cliff, duration >> ]

\* The arguments of createCampaign / createTokenCampaign (697-700) and the
\* vesting fields of the CreateCampaignRequest (779-783).
VestingSent(form, vestingFrequency, at) ==
    [ ledger |-> << vestingStartTs(form.enabled),
                    vestingCliffSeconds(form.enabled, form.cliffDays),
                    vestingDurationSeconds(form.enabled, form.durationDays) >>,
      store  |-> << IF form.enabled THEN "vested" ELSE "instant",
                    at,
                    vestingCliffSeconds(form.enabled, form.cliffDays),
                    vestingDurationSeconds(form.enabled, form.durationDays) >> ]

InitFrequency ==
    /\ InitWith({InstantForm})
    /\ campaign["k1"].token_mint = FALSE
    /\ vest = NoVest
    /\ pda = NoPda
    /\ \E form \in FrequencyForms, l \in Frequencies, r \in Frequencies :
           freqRun = [ form |-> form, at |-> 0, left |-> l, right |-> r,
                       leftSent |-> NoSent, rightSent |-> NoSent ]
    /\ tree = NoTree
    /\ packed = NoPacked
    /\ formatted = NoFormatted
    /\ prover = NoProver
    /\ deposit = NoDeposit

CreateWithLeft ==
    /\ freqRun.leftSent = NoSent
    /\ freqRun' = [freqRun EXCEPT !.leftSent = VestingSent(freqRun.form, freqRun.left, freqRun.at)]
    /\ UNCHANGED << claimVars, vestVars, createVars, pdaVars, tree, packed, formatted, prover, deposit >>

CreateWithRight ==
    /\ freqRun.rightSent = NoSent
    /\ freqRun' = [freqRun EXCEPT !.rightSent = VestingSent(freqRun.form, freqRun.right, freqRun.at)]
    /\ UNCHANGED << claimVars, vestVars, createVars, pdaVars, tree, packed, formatted, prover, deposit >>

NextFrequency == CreateWithLeft \/ CreateWithRight

SpecFrequency == InitFrequency /\ [][NextFrequency]_vars

(***************************************************************************)
(* The Commitment Builder on its own.  The recipient list is a run of n    *)
(* entries of a fixed pool, n from 1 to one more than a tree of the fixed  *)
(* depth has leaves.  The randomness source is injected as a seed: the     *)
(* i-th secret drawn is a function of the seed and i.  The builder runs on *)
(* the list, and then a second time with the same source.                  *)
(***************************************************************************)
RecipientPool ==
    << [wallet |-> "A", amount |-> 100], [wallet |-> "B", amount |-> 250],
       [wallet |-> "C", amount |-> 50],  [wallet |-> "B", amount |-> 250] >>

MaxRecipients == 2 ^ TreeDepth + 1

RecipientRun(offset, n) ==
    [ i \in 1..n |-> RecipientPool[((offset + i - 1) % Len(RecipientPool)) + 1] ]

Seeds == Secrets \X {0, 1}

\* A source of its own behind the injected one: what it gives moves on
\* with every run of the builder.
DrawSecretNotInjected(seed, i) ==
    ((seed[1] - 1 + seed[2] * i + (IF tree.first = NoBuild THEN 0 ELSE 1)) % MaxSecret) + 1

\* The i-th draw of generateSecret() from the source seeded with seed.
DrawSecret(seed, i) == ((seed[1] - 1 + seed[2] * i) % MaxSecret) + 1

DrawSecrets(seed, n) == [ i \in 1..n |-> DrawSecret(seed, i) ]

InitTree ==
    /\ InitWith({InstantForm})
    /\ campaign["k1"].token_mint = FALSE
    /\ vest = NoVest
    /\ pda = NoPda
    /\ freqRun = NoFreqRun
    /\ \E offset \in 0..(Len(RecipientPool) - 1), n \in 1..MaxRecipients, seed \in Seeds :
           tree = [ recipients |-> RecipientRun(offset, n), seed |-> seed,
                    first |-> NoBuild, second |-> NoBuild, probe |-> NoProbe ]
    /\ packed = NoPacked
    /\ formatted = NoFormatted
    /\ prover = NoProver
    /\ deposit = NoDeposit

BuildOnce ==
    /\ tree.first = NoBuild
    /\ tree' = [tree EXCEPT !.first =
                   buildMerkleTree(WithSecrets(tree.recipients,
                                               DrawSecrets(tree.seed, Len(tree.recipients))))]
    /\ UNCHANGED << claimVars, vestVars, createVars, pdaVars, freqRun, packed, formatted, prover, deposit >>

BuildAgain ==
    /\ tree.first # NoBuild
    /\ tree.second = NoBuild
    /\ tree.probe = NoProbe
    /\ tree' = [tree EXCEPT !.second =
                   buildMerkleTree(WithSecrets(tree.recipients,
                                               DrawSecrets(tree.seed, Len(tree.recipients))))]
    /\ UNCHANGED << claimVars, vestVars, createVars, pdaVars, freqRun, packed, formatted, prover, deposit >>

\* What a claimant who is not in the list may present: the address of a
\* recipient or another one, the amount of a recipient or another one, a
\* secret the source gives, any index of the tree, and as siblings the path
\* of a recipient or the zero siblings.
ProbeAddresses == {"A", "D"}

ProbeAmounts == {100, 7}

ProbePaths == { tree.first.paths[i] : i \in 1..Len(tree.first.paths) } \cup { ZeroPath(0) }

InList(address, amount) ==
    \E i \in 1..Len(tree.recipients) :
        tree.recipients[i].wallet = address /\ tree.recipients[i].amount = amount

\* The verification of a leaf against the published root: the path has
\* the depth of the tree and recomputes the root.
VerifyPath(leaf, path, index) ==
    /\ Len(path) = TreeDepth
    /\ Recompute(leaf, path, index) = tree.first.root

ProbeLeaf(address, amount, secret, index, path) ==
    /\ tree.first # NoBuild
    /\ tree.first.error = ""
    /\ tree.second = NoBuild
    /\ tree.probe = NoProbe
    /\ ~InList(address, amount)
    /\ tree' = [tree EXCEPT !.probe =
                   [ leaf  |-> FieldHash(address, amount, secret),
                     index |-> index,
                     path  |-> path,
                     valid |-> VerifyPath(FieldHash(address, amount, secret), path, index) ]]
    /\ UNCHANGED << claimVars, vestVars, createVars, pdaVars, freqRun, packed, formatted, prover, deposit >>

NextTree ==
    \/ BuildOnce
    \/ BuildAgain
    \/ \E address \in ProbeAddresses, amount \in ProbeAmounts, secret \in Secrets,
          index \in 0..(2 ^ TreeDepth - 1), path \in ProbePaths :
              ProbeLeaf(address, amount, secret, index, path)

SpecTree == InitTree /\ [][NextTree]_vars

(***************************************************************************)
(* PackedAccounts (lib/light.ts 68-114).  A public key is KeyBytes bytes.  *)
(* The accounts of the Light libraries are fixed keys; PublicKey.default   *)
(* is the key of zero bytes.                                               *)
(***************************************************************************)
\* The key whose bytes, read big-endian, have the value n.
KeyOf(n) == [ i \in 1..KeyBytes |-> (n \div (256 ^ (KeyBytes - i))) % 256 ]

LightAccounts ==
    [ lightSystemProgram          |-> KeyOf(1),
      systemProgram               |-> KeyOf(0),
      accountCompressionProgram   |-> KeyOf(2),
      accountCompressionAuthority |-> KeyOf(3),
      registeredProgramPda        |-> KeyOf(4),
      noopProgram                 |-> KeyOf(5) ]

\* defaultTestStateTreeAccounts()
TreeAccounts ==
    [ merkleTree |-> KeyOf(58), addressTree |-> KeyOf(256), addressQueue |-> KeyOf(314) ]

ProgramKey(programId) == IF programId = PROGRAM_ID THEN KeyOf(6) ELSE KeyOf(7)

\* findProgramAddressSync(["cpi_authority"], selfProgram)
CpiSigner(programId) == IF programId = PROGRAM_ID THEN KeyOf(8) ELSE KeyOf(9)

RECURSIVE ByteValue(_)
ByteValue(bytes) ==
    IF bytes = << >> THEN 0
    ELSE 256 * ByteValue(SubSeq(bytes, 1, Len(bytes) - 1)) + bytes[Len(bytes)]

RECURSIVE LeadingZeros(_)
LeadingZeros(bytes) ==
    IF bytes = << >> \/ bytes[1] # 0 THEN 0 ELSE 1 + LeadingZeros(Tail(bytes))

RECURSIVE Digits58(_)
Digits58(v) == IF v = 0 THEN << >> ELSE Digits58(v \div 58) \o << v % 58 >>

\* Only the last digit of the encoding is kept: keys that differ by a
\* multiple of 58 are taken for the same key.
toBase58LastDigit(pubkey) == << ByteValue(pubkey) % 58 >>

\* pubkey.toBase58(): one digit 0 ("1") per leading zero byte, then the
\* base-58 digits of the value of the bytes.
toBase58(pubkey) ==
    [ i \in 1..LeadingZeros(pubkey) |-> 0 ] \o Digits58(ByteValue(pubkey))

ReadOnlyMeta(pubkey) == [ pubkey |-> pubkey, isSigner |-> FALSE, isWritable |-> FALSE ]

getLightSystemAccountMetas(selfProgram) ==
    << ReadOnlyMeta(LightAccounts.lightSystemProgram),
       ReadOnlyMeta(CpiSigner(selfProgram)),
       ReadOnlyMeta(LightAccounts.registeredProgramPda),
       ReadOnlyMeta(LightAccounts.noopProgram),
       ReadOnlyMeta(LightAccounts.accountCompressionAuthority),
       ReadOnlyMeta(LightAccounts.accountCompressionProgram),
       ReadOnlyMeta(ProgramKey(selfProgram)),
       ReadOnlyMeta(LightAccounts.systemProgram) >>

\* Most insertOrGet calls made on one object.
MaxInserts == 4

\* The keys insertOrGet is called with: the tree accounts, and a key that
\* is also one of the system accounts.
InsertKeys ==
    { TreeAccounts.merkleTree, TreeAccounts.addressTree, TreeAccounts.addressQueue,
      LightAccounts.systemProgram }

\* accountMap.get(key): the index stored under key, or -1 for undefined.
MapGet(map, key) ==
    IF \E e \in map : e[1] = key THEN (CHOOSE e \in map : e[1] = key)[2] ELSE -1

\* The object after insertOrGet(pubkey), with the call and the index it
\* returned appended to the record of calls.
insertOrGet(obj, pubkey) ==
    LET key      == toBase58(pubkey)
        existing == MapGet(obj.accountMap, key)
    IN  IF existing # -1
        THEN [obj EXCEPT !.calls = Append(@, pubkey), !.returns = Append(@, existing)]
        ELSE [obj EXCEPT !.nextIndex = @ + 1,
                         !.accountMap = @ \cup { << key, obj.nextIndex >> },
                         !.packedAccounts =
                             Append(@, [pubkey |-> pubkey, isSigner |-> FALSE, isWritable |-> TRUE]),
                         !.calls = Append(@, pubkey),
                         !.returns = Append(@, obj.nextIndex)]

toAccountMetas(obj) ==
    [ remainingAccounts |-> obj.systemAccounts \o obj.packedAccounts,
      packedStart       |-> Len(obj.systemAccounts) ]

NewObject(programId) ==
    [ NoPacked EXCEPT !.built = TRUE, !.systemAccounts = getLightSystemAccountMetas(programId) ]

InitPacked ==
    /\ InitWith({InstantForm})
    /\ campaign["k1"].token_mint = FALSE
    /\ vest = NoVest
    /\ pda = NoPda
    /\ freqRun = NoFreqRun
    /\ tree = NoTree
    /\ packed = NoPacked
    /\ formatted = NoFormatted
    /\ prover = NoProver
    /\ deposit = NoDeposit

\* new PackedAccounts(programId)
NewPackedAccounts(programId) ==
    /\ ~packed.built
    /\ packed' = NewObject(programId)
    /\ UNCHANGED << claimVars, vestVars, createVars, pdaVars, freqRun, tree, formatted, prover, deposit >>

createPackedAccountsForClaim ==
    /\ ~packed.built
    /\ packed' = insertOrGet(insertOrGet(insertOrGet(NewObject(PROGRAM_ID),
                                                     TreeAccounts.merkleTree),
                                         TreeAccounts.addressTree),
                             TreeAccounts.addressQueue)
    /\ UNCHANGED << claimVars, vestVars, createVars, pdaVars, freqRun, tree, formatted, prover, deposit >>

InsertOrGetCall(pubkey) ==
    /\ packed.built
    /\ Len(packed.calls) < MaxInserts
    /\ packed' = insertOrGet(packed, pubkey)
    /\ UNCHANGED << claimVars, vestVars, createVars, pdaVars, freqRun, tree, formatted, prover, deposit >>

ToAccountMetasCall ==
    /\ packed.built
    /\ packed' = [packed EXCEPT !.metas = toAccountMetas(packed)]
    /\ UNCHANGED << claimVars, vestVars, createVars, pdaVars, freqRun, tree, formatted, prover, deposit >>

NextPacked ==
    \/ \E programId \in ProgramIds : NewPackedAccounts(programId)
    \/ createPackedAccountsForClaim
    \/ \E pubkey \in InsertKeys : InsertOrGetCall(pubkey)
    \/ ToAccountMetasCall

SpecPacked == InitPacked /\ [][NextPacked]_vars

(***************************************************************************)
(* formatProofForSolana (prover module, 220-241) and its hexToBytes        *)
(* (198-205).  A hex string is its "0x" flag and its digits, a byte array  *)
(* a sequence of 0..255.                                                   *)
(***************************************************************************)
FieldBytes == 32

PublicInputCount == 3

\* How many bytes more or fewer than the fixed sizes an input may have.
MaxOver == 1

HexString(prefixed, digits) == [ prefixed |-> prefixed, digits |-> digits ]

\* hexToBytes: cleanHex.length / 2 bytes (a Uint8Array length is truncated
\* to an integer), byte i parsed from the digits 2i and 2i + 1.
proverHexToBytes(hex) ==
    [ i \in 1..(Len(hex.digits) \div 2) |-> 16 * hex.digits[2 * i - 1] + hex.digits[2 * i] ]

Zeros(n) == [ i \in 1..n |-> 0 ]

Slice(seq, n) == SubSeq(seq, 1, IF Len(seq) < n THEN Len(seq) ELSE n)

\* new Uint8Array(32) with inputBytes.slice(0, 32) set at offset
\* 32 - inputBytes.length: TypedArray.set throws a RangeError for a
\* negative offset.
Pad(inputBytes) ==
    LET source == Slice(inputBytes, FieldBytes)
        offset == FieldBytes - Len(inputBytes)
    IN  IF offset < 0
        THEN [ threw |-> TRUE, bytes |-> << >> ]
        ELSE [ threw |-> FALSE,
               bytes |-> Zeros(offset) \o source \o Zeros(FieldBytes - offset - Len(source)) ]

RECURSIVE Flatten(_)
Flatten(seqs) == IF seqs = << >> THEN << >> ELSE Head(seqs) \o Flatten(Tail(seqs))

formatProofForSolana(proof) ==
    LET inputs == Slice(proof.publicInputs, PublicInputCount)
        padded == [ p \in 1..Len(inputs) |-> Pad(proverHexToBytes(inputs[p])) ]
    IN  IF \E p \in 1..Len(inputs) : padded[p].threw
        THEN [ NoFormat EXCEPT !.threw = TRUE ]
        ELSE [ threw        |-> FALSE,
               groth16Proof |-> Slice(proof.proof, Groth16ProofBytes),
               publicInputs |-> Flatten([ p \in 1..Len(inputs) |-> padded[p].bytes ]) ]

\* The ZkProofs the function is given: a proof around 256 bytes, two to
\* four public inputs, each with around 64 hex digits, with or without
\* "0x".
ProofLengths == (Groth16ProofBytes - MaxOver)..(Groth16ProofBytes + MaxOver)

DigitCounts == (2 * FieldBytes - 2 * MaxOver)..(2 * FieldBytes + 2 * MaxOver)

InputDigits(p, n) == [ j \in 1..n |-> (5 * p + 3 * j) % 16 ]

ZkProofs ==
    { [ proof        |-> [ i \in 1..len |-> (7 * i) % 256 ],
        publicInputs |-> [ p \in 1..count |->
                             HexString(prefixed, InputDigits(p, counts[((p - 1) % 3) + 1])) ] ] :
        len \in ProofLengths, count \in (PublicInputCount - 1)..(PublicInputCount + 1),
        counts \in [1..3 -> DigitCounts], prefixed \in BOOLEAN }

InitFormat ==
    /\ InitWith({InstantForm})
    /\ campaign["k1"].token_mint = FALSE
    /\ vest = NoVest
    /\ pda = NoPda
    /\ freqRun = NoFreqRun
    /\ tree = NoTree
    /\ packed = NoPacked
    /\ \E proof \in ZkProofs : formatted = [ NoFormatted EXCEPT !.proof = proof ]
    /\ prover = NoProver
    /\ deposit = NoDeposit

FormatProof ==
    /\ ~formatted.called
    /\ formatted' = [ formatted EXCEPT !.called = TRUE,
                                       !.out = formatProofForSolana(formatted.proof) ]
    /\ UNCHANGED << claimVars, vestVars, createVars, pdaVars, freqRun, tree, packed, prover, deposit >>

NextFormat == FormatProof

SpecFormat == InitFormat /\ [][NextFormat]_vars

(***************************************************************************)
(* ShadowDropProver (prover module, 71-193).  initialize and generateProof *)
(* are async: each runs to its next await in one step, and the steps of    *)
(* calls in flight interleave.  A circuitJson is "ok", "badCircuit" (new   *)
(* Noir throws) or "badBytecode" (new UltraHonkBackend throws).            *)
(***************************************************************************)
Circuits == {"ok", "badCircuit", "badBytecode"}

OtherCalls == << claimVars, vestVars, createVars, pdaVars, freqRun, tree, packed, formatted,
                deposit >>

\* getProver(): the instance is created on the first call and returned after.
getProver ==
    /\ prover' = [ prover EXCEPT !.exists = TRUE ]
    /\ UNCHANGED OtherCalls

\* initialize up to its await: returns at once when initialized, otherwise
\* starts the two dynamic imports.
InitializeCall(c, circuitJson) ==
    /\ prover.exists
    /\ prover.init[c].pc = "idle"
    /\ prover' = [ prover EXCEPT !.init[c] =
                      [ pc      |-> IF prover.initialized THEN "returned" ELSE "importing",
                        circuit |-> circuitJson ] ]
    /\ UNCHANGED OtherCalls

\* An import rejects: the catch rethrows.
ImportFails(c) ==
    /\ prover.init[c].pc = "importing"
    /\ prover' = [ prover EXCEPT !.init[c].pc = "failed" ]
    /\ UNCHANGED OtherCalls

\* The imports resolve: lines 93-95 run without a further await.
ImportResolves(c) ==
    /\ prover.init[c].pc = "importing"
    /\ prover' =
           CASE prover.init[c].circuit = "badCircuit" ->
                    [ prover EXCEPT !.init[c].pc = "failed" ]
             [] prover.init[c].circuit = "badBytecode" ->
                    [ prover EXCEPT !.init[c].pc = "failed",
                                    !.noir = c, !.noirBuilt = @ + 1 ]
             [] OTHER ->
                    [ prover EXCEPT !.init[c].pc = "done",
                                    !.noir = c, !.noirBuilt = @ + 1,
                                    !.backend = c, !.backendBuilt = @ + 1,
                                    !.initialized = TRUE ]
    /\ UNCHANGED OtherCalls

\* generateProof up to its first await: throws when not initialized,
\* otherwise calls this.noir.execute.
GenerateProofCall(g) ==
    /\ prover.exists
    /\ prover.gen[g].pc = "idle"
    /\ prover' =
           IF ~prover.initialized \/ prover.noir = 0 \/ prover.backend = 0
           THEN [ prover EXCEPT !.gen[g].pc = "threw" ]
           ELSE [ prover EXCEPT !.gen[g].pc = "executing", !.gen[g].noir = prover.noir ]
    /\ UNCHANGED OtherCalls

\* execute resolves: this.backend is read now and generateProof called on it.
ExecuteResolves(g) ==
    /\ prover.gen[g].pc = "executing"
    /\ prover' = [ prover EXCEPT !.gen[g].pc = "proving", !.gen[g].backend = prover.backend ]
    /\ UNCHANGED OtherCalls

ProvingResolves(g) ==
    /\ prover.gen[g].pc = "proving"
    /\ prover' = [ prover EXCEPT !.gen[g].pc = "done" ]
    /\ UNCHANGED OtherCalls

\* execute or generateProof rejects: the catch rethrows.
ProvingFails(g) ==
    /\ prover.gen[g].pc \in {"executing", "proving"}
    /\ prover' = [ prover EXCEPT !.gen[g].pc = "failed" ]
    /\ UNCHANGED OtherCalls

isInitialized == prover.initialized

InitProver ==
    /\ InitWith({InstantForm})
    /\ campaign["k1"].token_mint = FALSE
    /\ vest = NoVest
    /\ pda = NoPda
    /\ freqRun = NoFreqRun
    /\ tree = NoTree
    /\ packed = NoPacked
    /\ formatted = NoFormatted
    /\ prover = NoProver
    /\ deposit = NoDeposit

NextProver ==
    \/ getProver
    \/ \E c \in InitCallIds, circuitJson \in Circuits : InitializeCall(c, circuitJson)
    \/ \E c \in InitCallIds : ImportFails(c)
    \/ \E c \in InitCallIds : ImportResolves(c)
    \/ \E g \in ProofCallIds : GenerateProofCall(g)
    \/ \E g \in ProofCallIds : ExecuteResolves(g)
    \/ \E g \in ProofCallIds : ProvingResolves(g)
    \/ \E g \in ProofCallIds : ProvingFails(g)

SpecProver == InitProver /\ [][NextProver]_vars

(***************************************************************************)
(* The amounts of CreateAirdrop (Dashboard.tsx 619-629, 638, 670-695,      *)
(* 734).  A JavaScript Number is a binary floating-point value m * 2^e     *)
(* with a mantissa of MantissaBits bits, rounded to nearest, ties to even; *)
(* a decimal text is n / 10^d.  The token has ModelDecimals decimals and   *)
(* the amounts are written in tenths.                                      *)
(***************************************************************************)
MantissaBits == 5

ModelDecimals == 1

\* Largest amount of a line, in tenths, and most lines of the text.
MaxTenths == 12

MaxLines == 2

\* Most fractional digits Number.prototype.toString writes.
MaxDigits == 4

Zero == [ m |-> 0, e |-> 0 ]

\* num / den as q * 2^e with 2^(MantissaBits - 1) <= q < 2^MantissaBits.
RECURSIVE Normalize(_, _, _)
Normalize(num, den, e) ==
    IF num >= (2 ^ MantissaBits) * den THEN Normalize(num, 2 * den, e + 1)
    ELSE IF num < (2 ^ (MantissaBits - 1)) * den THEN Normalize(2 * num, den, e - 1)
    ELSE [ num |-> num, den |-> den, e |-> e ]

\* The Number nearest to num / den.
RoundRatio(num, den) ==
    IF num = 0 THEN Zero
    ELSE LET n  == Normalize(num, den, 0)
             q  == n.num \div n.den
             r  == n.num % n.den
             up == 2 * r > n.den \/ (2 * r = n.den /\ q % 2 = 1)
             m  == IF up THEN q + 1 ELSE q
         IN  IF m = 2 ^ MantissaBits
             THEN [ m |-> 2 ^ (MantissaBits - 1), e |-> n.e + 1 ]
             ELSE [ m |-> m, e |-> n.e ]

\* The Number nearest to num * 2^e.
RoundScaled(num, e) ==
    IF e >= 0 THEN RoundRatio(num * (2 ^ e), 1) ELSE RoundRatio(num, 2 ^ (0 - e))

\* a + b
NumberAdd(a, b) ==
    IF a.m = 0 THEN b
    ELSE IF b.m = 0 THEN a
    ELSE LET lo == IF a.e < b.e THEN a.e ELSE b.e
         IN  RoundScaled(a.m * (2 ^ (a.e - lo)) + b.m * (2 ^ (b.e - lo)), lo)

\* a * k for an integer k
NumberTimes(a, k) == RoundScaled(a.m * k, a.e)

MathFloor(a) == IF a.e >= 0 THEN a.m * (2 ^ a.e) ELSE a.m \div (2 ^ (0 - a.e))

DecimalText(n, d) == [ n |-> n, d |-> d ]

\* parseFloat of a decimal text; the empty string is read as "0" where the
\* code writes (text || "0").
parseFloat(text) == IF text = EmptyText THEN Zero ELSE RoundRatio(text.n, 10 ^ text.d)

\* The decimal with d fractional digits nearest to the Number a.
NearestDecimal(a, d) ==
    IF a.e >= 0 THEN a.m * (2 ^ a.e) * (10 ^ d)
    ELSE (2 * a.m * (10 ^ d) + 2 ^ (0 - a.e)) \div (2 * (2 ^ (0 - a.e)))

\* total.toString(): the shortest decimal that reads back as the Number.
NumberToString(a) ==
    LET ReadsBack(d) == RoundRatio(NearestDecimal(a, d), 10 ^ d) = a
        digits == CHOOSE d \in 0..MaxDigits :
                      ReadsBack(d) /\ \A d2 \in 0..(d - 1) : ~ReadsBack(d2)
    IN  DecimalText(NearestDecimal(a, digits), digits)

\* The recipients text: up to MaxLines lines "wallet, amount", the amount
\* written with one fractional digit.
AmountTexts == { DecimalText(k, 1) : k \in 0..MaxTenths }

RecipientLines == UNION { [1..n -> AmountTexts] : n \in 1..MaxLines }

\* The auto-calculated total (619-629): the amounts parsed and added in
\* the order of the lines; the field is empty when the total is not positive.
RECURSIVE SumOfLines(_)
SumOfLines(lines) ==
    IF lines = << >> THEN Zero
    ELSE NumberAdd(SumOfLines(SubSeq(lines, 1, Len(lines) - 1)), parseFloat(lines[Len(lines)]))

AutoTotal(lines) ==
    IF SumOfLines(lines).m > 0 THEN NumberToString(SumOfLines(lines)) ELSE EmptyText

\* BigInt(Math.floor(amountNum * Math.pow(10, decimals)))
BaseUnits(text) == MathFloor(NumberTimes(parseFloat(text), 10 ^ ModelDecimals))

InitDeposit ==
    /\ InitWith({InstantForm})
    /\ campaign["k1"].token_mint = FALSE
    /\ vest = NoVest
    /\ pda = NoPda
    /\ freqRun = NoFreqRun
    /\ tree = NoTree
    /\ packed = NoPacked
    /\ formatted = NoFormatted
    /\ prover = NoProver
    /\ deposit = NoDeposit

\* The recipients text is edited and the effect on [recipients] sets the
\* read-only total field (1105-1115).
EditRecipients(lines) ==
    /\ ~deposit.created
    /\ deposit' = [ deposit EXCEPT !.recipients = lines, !.tokenAmount = AutoTotal(lines) ]
    /\ UNCHANGED << claimVars, vestVars, createVars, pdaVars, freqRun, tree, packed,
                    formatted, prover >>

\* The token type selector (1119-1130).
ToggleTokenType ==
    /\ ~deposit.created
    /\ deposit' = [ deposit EXCEPT !.tokenType = IF @ = "sol" THEN "spl" ELSE "sol" ]
    /\ UNCHANGED << claimVars, vestVars, createVars, pdaVars, freqRun, tree, packed,
                    formatted, prover >>

\* handleCreate's amounts: the deposit is the floor of the total field in
\* base units (695; for a token new BN(...) of 734 truncates the same
\* way), each recipient's amount the floor of its own line (672-679).  The
\* review step is reached only with a total (1391).
CreateAmounts ==
    /\ ~deposit.created
    /\ deposit.tokenAmount # EmptyText
    /\ deposit' = [ deposit EXCEPT
                      !.created = TRUE,
                      !.lamports = BaseUnits(deposit.tokenAmount),
                      !.recipientList =
                          [ i \in 1..Len(deposit.recipients) |-> BaseUnits(deposit.recipients[i]) ] ]
    /\ UNCHANGED << claimVars, vestVars, createVars, pdaVars, freqRun, tree, packed,
                    formatted, prover >>

NextDeposit ==
    \/ \E lines \in RecipientLines : EditRecipients(lines)
    \/ ToggleTokenType
    \/ CreateAmounts

SpecDeposit == InitDeposit /\ [][NextDeposit]_vars

(***************************************************************************)
(* Properties                                                              *)
(***************************************************************************)
RecordsOf(k) == { r \in ledgerRecords : r.campaign = k }

Quiescent == \A c \in Clients : pc[c] = "idle"

\* The instruction of c was run by the ledger, was well-formed and did not
\* ask for more than the vault held.
RanValid(c) ==
    /\ pc[c] = "confirming"
    /\ WellFormed(tx[c])
    /\ txResult[c] # "VaultUnderfunded"

\* C1: of the claim instructions the ledger runs for one nullifier (or one
\* claimer) of a campaign, exactly one creates the record and is Settled,
\* every other is answered AlreadyClaimed, there is one record per key, and
\* the vault is debited exactly once per record.
C1_ExactlyOneSettles ==
    /\ \A r1, r2 \in ledgerRecords :
           (r1.campaign = r2.campaign /\ r1.key = r2.key) => r1 = r2
    /\ \A k \in Campaigns :
           Vault0(campaign[k].token_mint) - vault[k] = SumAmounts(RecordsOf(k))
    /\ \A c \in Clients :
           RanValid(c) =>
               /\ txResult[c] \in {"ok", "AlreadyClaimed"}
               /\ \E r \in RecordsOf(tx[c].campaign) : r.key = tx[c].key
    /\ \A c, d \in Clients :
           (c # d /\ RanValid(c) /\ RanValid(d) /\ tx[c].campaign = tx[d].campaign
              /\ tx[c].key = tx[d].key)
           => ~(txResult[c] = "ok" /\ txResult[d] = "ok")

\* Two clients raced with the same nullifier: one Settled, one lost.
C1_Witness ==
    \E c, d \in Clients :
        /\ c # d
        /\ RanValid(c) /\ RanValid(d)
        /\ tx[c].method = "claimZkSimple"
        /\ tx[c].key = tx[d].key
        /\ txResult[c] = "ok" /\ txResult[d] = "AlreadyClaimed"
        /\ Cardinality(ledgerRecords) = 1

C3_RaceLossIsSettled ==
    [][ \A c \in Clients :
            (RpcReturns(c) /\ txResult[c] = "AlreadyClaimed") =>
                /\ claimingId[c] \notin eligibleCampaigns'[c]
                /\ toast'[c][1] = "warning: Already Claimed"
                /\ ~loading'[c]
                /\ claimingId'[c] = NoCampaign ]_vars

\* A client that lost the race: warned, the campaign gone from its list,
\* the record on the ledger and the off-chain flag not yet written.
C3_Witness ==
    \E c \in Clients :
        /\ pc[c] = "idle"
        /\ toast[c][1] = "warning: Already Claimed"
        /\ eligibleCampaigns[c] = {}
        /\ RecordExists("k1", wallet[c])
        /\ <<"k1", wallet[c]>> \notin claimed

\* C4: a claim that fails for any reason other than the record existing
\* (the user rejects the signature, the transaction is dropped, the ledger
\* rejects it as malformed or underfunded) changes nothing on the ledger or
\* in the off-chain copy, leaves the client's eligible list as it was and
\* the Claim button enabled again.
C4_OtherRejectionIsUnclaimed ==
    [][ \A c \in Clients :
            /\ (LedgerExecute(c) /\ txResult'[c] # "ok") =>
                   (ledgerRecords' = ledgerRecords /\ vault' = vault)
            /\ (\/ SignRejected(c)
                \/ TxDropped(c)
                \/ (RpcReturns(c) /\ txResult[c] \notin {"ok", "AlreadyClaimed"})) =>
                   /\ ledgerRecords' = ledgerRecords
                   /\ vault' = vault
                   /\ claimed' = claimed
                   /\ eligibleCampaigns'[c] = eligibleCampaigns[c]
                   /\ ~loading'[c]
                   /\ claimingId'[c] = NoCampaign
                   /\ pc'[c] = "idle"
                   /\ toast'[c][1] \in {"info: Claim cancelled by user.", "error: Claim failed"} ]_vars

\* A claim failed on an underfunded vault and can be started again.
C4_Witness ==
    \E c \in Clients :
        /\ pc[c] = "idle"
        /\ toast[c] = <<"error: Claim failed", "VaultUnderfunded">>
        /\ ~loading[c]
        /\ "k1" \in eligibleCampaigns[c]
        /\ ~RecordExists("k1", wallet[c])
        /\ <<"k1", wallet[c]>> \notin claimed
        /\ vault["k1"] < Amount(wallet[c])

\* C5: once no claim is in flight, every recipient whose record the ledger
\* created is marked claimed off-chain, and in every state a recipient is
\* marked claimed only if the ledger holds the record.
C5_SettledIsMarked ==
    /\ Quiescent =>
           \A k \in Campaigns, w \in Recipients :
               RecordExists(k, w) => <<k, w>> \in claimed
    /\ \A k \in Campaigns, w \in Recipients :
           <<k, w>> \in claimed => RecordExists(k, w)

C7_NoMalformedSubmission ==
    \A c \in Clients :
        (pc[c] \in {"inflight", "confirming"} /\ tx[c].method = "claimZkSimple") =>
            WellFormed(tx[c])

\* What has been settled for recipient w of campaign k.
SettledAmount(k, w) ==
    SumAmounts({ r \in RecordsOf(k) :
                   r.key = (IF campaign[k].token_mint THEN <<w, "">> ELSE NullifierOf(k, w)) })

Max(a, b) == IF a >= b THEN a ELSE b

\* C8: on a campaign with duration_seconds > 0, a claim instruction in
\* flight never asks for more than the amount unlocked by now and not yet
\* settled for its recipient.
C8_RequestsUnlockedDelta ==
    \A c \in Clients :
        (pc[c] = "inflight" /\ campaign[tx[c].campaign].duration > 0) =>
            tx[c].amount <=
                Max(0, Claimable(Amount(tx[c].claimer), campaign[tx[c].campaign].start,
                                 campaign[tx[c].campaign].cliff,
                                 campaign[tx[c].campaign].duration, now)
                       - SettledAmount(tx[c].campaign, tx[c].claimer))

StoredLeaves(s) ==
    [ i \in 1..Len(s.recipients) |->
        FieldHash(s.recipients[i].wallet, s.recipients[i].amount, s.recipients[i].secret) ]

\* C12: for every campaign the off-chain store holds, the stored recipients
\* with their stored secrets are exactly the leaves hashed into the merkle
\* root the ledger holds for that campaign.
C12_StoredSecretsAreCommitted ==
    \A s \in store :
        \E c \in chainCampaigns :
            /\ c.address = s.address
            /\ StoredLeaves(s) = RealLeaves(c.merkle_root)

\* C13: for every stored recipient, recomputing the root from its leaf, its
\* stored merkle_path and its leaf_index yields the root generateMerkleRoot
\* returned for the list, which is the campaign's merkle_root.
C13_StoredPathRecomputesRoot ==
    \A s \in store :
        \A i \in 1..Len(s.recipients) :
            Recompute(StoredLeaves(s)[i], s.recipients[i].merkle_path,
                      s.recipients[i].leaf_index) = s.merkle_root

\* C14: every entry of a campaign's recipient list, two entries with the
\* same (address, amount) included, is a leaf of the published root with a
\* stored row of its own and a claim record address of its own, so that
\* settling one entry does not settle another.
C14_DuplicateEntriesAreIndependent ==
    \A s \in store, c \in chainCampaigns :
        c.address = s.address =>
            /\ Len(s.recipients) = Len(RealLeaves(c.merkle_root))
            /\ \A i, j \in 1..Len(RealLeaves(c.merkle_root)) :
                   i # j =>
                       deriveClaimRecordPDA(c.address, RealLeaves(c.merkle_root)[i][1])
                         # deriveClaimRecordPDA(c.address, RealLeaves(c.merkle_root)[j][1])

\* The recipient list a published root was built over has an entry and no
\* zero amount.
ValidLeaves(leaves) ==
    /\ Len(leaves) > 0
    /\ \A i \in 1..Len(leaves) : leaves[i][2] > 0

C16_DomainSeparated ==
    /\ (pda.leftId # NoId /\ pda.rightId # NoId)
          => /\ TagOf(pda.left.kind) # TagOf(pda.right.kind) => pda.leftId # pda.rightId
             /\ pda.left = pda.right => pda.leftId = pda.rightId
    /\ pda.leftId # NoId => pda.leftId = DeriveBy(pda.left)
    /\ pda.rightId # NoId => pda.rightId = DeriveBy(pda.right)

\* The campaign and the vault of one authority and one campaign id, both
\* derived, with different addresses.
C16_Witness ==
    /\ pda.left.kind = "campaign"
    /\ pda.right.kind = "vault"
    /\ pda.left.key = pda.right.key
    /\ pda.left.last = pda.right.last
    /\ Len(pda.left.last) = MaxSeedLen
    /\ pda.leftId # NoId
    /\ pda.rightId # NoId
    /\ pda.leftId # pda.rightId

EligibilityOfScenario ==
    [][ \A k \in Campaigns :
            /\ CheckEligibility(k, "B") => (lastCheck'.eligible /\ lastCheck'.amount = 250)
            /\ CheckEligibility(k, "D") => ~lastCheck'.eligible ]_vars

CancelsBeforeLedger(c) ==
    \/ ProofFails(c)
    \/ SignRejected(c)
    \/ TxDropped(c)
    \/ (pc[c] \in {"proving", "signing", "inflight"} /\ Reload(c))

CancelsAfterLedger(c) ==
    \/ MarkClaimedFails(c)
    \/ (pc[c] \in {"confirming", "marking"} /\ Reload(c))

ClaimOffered(c, k) ==
    /\ k \in eligibleCampaigns[c]
    /\ ~loading[c]
    /\ ~success[c]
    /\ ~fetchingCampaigns[c]

\* C20: when .rpc() throws VaultUnderfunded, handleClaim ends with the
\* campaign no longer offered for claiming (the vault is never topped up
\* here), and with a toast other than the one a retryable failure of the
\* submission raises.
C20_UnderfundedIsTerminal ==
    [][ \A c \in Clients :
            (RpcReturns(c) /\ txResult[c] = "VaultUnderfunded") =>
                /\ ~ClaimOffered(c, claimingId[c])'
                /\ toast'[c][1] # CatchToast("Failed to fetch")[1] ]_vars

\* Seconds the comparison of claimable amounts runs over.
ClaimTimes == { d * DaySeconds + e : d \in 0..(DefaultDurationDays + 1), e \in {0, 1} }

\* C21: two creations from the same form that differ only in the chosen
\* vesting frequency send the same vesting parameters to the ledger and to
\* the off-chain store, and the same amount is claimable from both at every
\* time.
C21_FrequencyDoesNotSettle ==
    (freqRun.leftSent # NoSent /\ freqRun.rightSent # NoSent) =>
        /\ freqRun.leftSent.ledger = freqRun.rightSent.ledger
        /\ freqRun.leftSent.store = freqRun.rightSent.store
        /\ \A t \in ClaimTimes :
               Claimable(Amount("B"), 0, freqRun.leftSent.ledger[2],
                         freqRun.leftSent.ledger[3], t)
                 = Claimable(Amount("B"), 0, freqRun.rightSent.ledger[2],
                             freqRun.rightSent.ledger[3], t)

\* A vested campaign of 8 days with a 1-day cliff was created once as
\* "daily" and once as "monthly", with the same parameters sent.
C21_Witness ==
    /\ freqRun.form = [enabled |-> TRUE, cliffDays |-> 1, durationDays |-> 8]
    /\ freqRun.left = "daily"
    /\ freqRun.right = "monthly"
    /\ freqRun.leftSent # NoSent
    /\ freqRun.leftSent = freqRun.rightSent
    /\ freqRun.leftSent.ledger = << 0, DaySeconds, 8 * DaySeconds >>

\* The leaves the first run hashed, in input order.
TreeLeaves == LeavesOf(WithSecrets(tree.recipients, DrawSecrets(tree.seed, Len(tree.recipients))))

\* The leaves under a node that is the given number of levels up.
RECURSIVE LeavesBelow(_, _)
LeavesBelow(node, levels) ==
    IF levels = 0 THEN << node >>
    ELSE LeavesBelow(node[1], levels - 1) \o LeavesBelow(node[2], levels - 1)

\* The padding, the indices and the validity of the paths of a built tree
\* whose paths have the given number of siblings.
PaddedInOrder(build, levels) ==
    LET n      == Len(tree.recipients)
        padded == LeavesBelow(build.root, levels)
    IN  /\ \A i \in 1..n : padded[i] = TreeLeaves[i]
        /\ \A i \in (n + 1)..Len(padded) : padded[i] = ZERO_LEAF
        /\ \A i \in 1..n : Recompute(TreeLeaves[i], build.paths[i], i - 1) = build.root
        /\ PaddedCount(n) >= n
        /\ PaddedCount(n) < 2 * n
        /\ \A i \in (PaddedCount(n) + 1)..Len(padded) : padded[i] = ZERO_LEAF

C24_NonMemberHasNoPath ==
    tree.probe # NoProbe => ~tree.probe.valid

\* Recipient A's address with another amount, A's secret, A's index and
\* A's path were presented against the root and refused.
C24_Witness ==
    /\ tree.recipients[1] = [wallet |-> "A", amount |-> 100]
    /\ Len(tree.recipients) = 3
    /\ tree.probe.leaf = <<"A", 7, DrawSecret(tree.seed, 1)>>
    /\ tree.probe.index = 0
    /\ tree.probe.path = tree.first.paths[1]
    /\ Recompute(TreeLeaves[1], tree.probe.path, 0) = tree.first.root
    /\ ~tree.probe.valid

\* What holds of the order of handleCreate: the store is written only for a
\* campaign the ledger holds, and success is shown only with both written.
CreateOrder ==
    /\ \A s \in store : \E c \in chainCampaigns : c.address = s.address
    /\ createPc = "saving" => \E c \in chainCampaigns : c.address = createReq.campaignPDA
    /\ createToast[1] = "success" => (store # {} /\ chainCampaigns # {})

\* C25: the off-chain store is written only for a campaign the ledger
\* holds, success is shown only after both were written, and once
\* handleCreate has ended every campaign on the ledger has its recipient
\* list in the off-chain store.
C25_CreatedIsPersisted ==
    /\ CreateOrder
    /\ createPc = "idle" =>
           \A c \in chainCampaigns : \E s \in store : s.address = c.address

(***************************************************************************)
(* PackedAccounts properties                                               *)
(***************************************************************************)
\* The distinct keys of a sequence of calls, in the order of their first call.
RECURSIVE FirstCalls(_)
FirstCalls(calls) ==
    IF calls = << >> THEN << >>
    ELSE LET rest == FirstCalls(SubSeq(calls, 1, Len(calls) - 1))
             last == calls[Len(calls)]
         IN  IF \E i \in 1..Len(rest) : rest[i] = last THEN rest ELSE Append(rest, last)

PlaceIn(seq, x) == CHOOSE i \in 1..Len(seq) : seq[i] = x

\* C26: after any sequence of insertOrGet calls on a PackedAccounts, every
\* call returned the place of its key among the distinct keys in the order
\* of their first insertion, counted from 0 (so a repeated key returns its
\* original index), the packed accounts are exactly those distinct keys
\* (a repeated key adds nothing), and what toAccountMetas returned starts
\* with the 8 system accounts, has packedStart equal to 8, and holds the key
\* of index i at position packedStart + i.
C26_PackedAccountsIndexing ==
    packed.built =>
        LET first == FirstCalls(packed.calls)
            metas == packed.metas
        IN  /\ Len(packed.returns) = Len(packed.calls)
            /\ \A j \in 1..Len(packed.calls) :
                   packed.returns[j] = PlaceIn(first, packed.calls[j]) - 1
            /\ packed.nextIndex = Len(first)
            /\ Len(packed.packedAccounts) = Len(first)
            /\ \A i \in 1..Len(first) : packed.packedAccounts[i].pubkey = first[i]
            /\ metas # NoMetas =>
                   /\ metas.packedStart = 8
                   /\ Len(packed.systemAccounts) = 8
                   /\ SubSeq(metas.remainingAccounts, 1, 8) = packed.systemAccounts
                   /\ \A i \in 0..(Len(metas.remainingAccounts) - 8 - 1) :
                          metas.remainingAccounts[metas.packedStart + i + 1].pubkey = first[i + 1]

\* A key was inserted again after other keys, and toAccountMetas ran on an
\* object with several packed accounts.
C26_Witness ==
    /\ packed.built
    /\ Len(packed.calls) > Len(packed.packedAccounts)
    /\ Len(packed.packedAccounts) >= 2
    /\ packed.metas # NoMetas
    /\ Len(packed.metas.remainingAccounts) >= 10
    /\ \E j \in 1..Len(packed.calls) : \E i \in 1..(j - 1) :
           packed.calls[i] = packed.calls[j] /\ packed.returns[j] = 0 /\ j > i + 1

(***************************************************************************)
(* formatProofForSolana properties                                         *)
(***************************************************************************)
\* The 32-byte big-endian value of a hex string of at most 64 digits: the
\* digits left-padded with zero digits to 64 and read two by two.
BigEndianField(hex) ==
    LET nibbles == Zeros(2 * FieldBytes - Len(hex.digits)) \o hex.digits
    IN  [ i \in 1..FieldBytes |-> 16 * nibbles[2 * i - 1] + nibbles[2 * i] ]

FieldOf(bytes, p) == SubSeq(bytes, FieldBytes * (p - 1) + 1, FieldBytes * p)

\* A ZkProof of the sizes the circuit fixes: at least 256 proof bytes, at
\* least three public inputs, each of an even number of digits, at most 64.
WellSized(proof) ==
    /\ Len(proof.proof) >= Groth16ProofBytes
    /\ Len(proof.publicInputs) >= PublicInputCount
    /\ \A p \in 1..PublicInputCount :
           /\ Len(proof.publicInputs[p].digits) % 2 = 0
           /\ Len(proof.publicInputs[p].digits) <= 2 * FieldBytes

Formats(proof, out) ==
    /\ ~out.threw
    /\ Len(out.groth16Proof) = Groth16ProofBytes
    /\ Len(out.publicInputs) = PublicInputCount * FieldBytes
    /\ \A p \in 1..PublicInputCount :
           /\ Len(proof.publicInputs) >= p
           /\ Len(proof.publicInputs[p].digits) <= 2 * FieldBytes
           /\ FieldOf(out.publicInputs, p) = BigEndianField(proof.publicInputs[p])

\* For a ZkProof of the fixed sizes formatProofForSolana gives 256 proof
\* bytes and the three public inputs as 32-byte big-endian values.
FormatsWellSized ==
    (formatted.called /\ WellSized(formatted.proof)) => Formats(formatted.proof, formatted.out)

\* C27: for every ZkProof it is given, formatProofForSolana does not
\* throw and returns a groth16Proof of exactly 256 bytes and publicInputs of
\* exactly 96 bytes, the three 32-byte big-endian values of the first three
\* public inputs, each shorter one left-padded with zeros.
C27_FormatsEveryProof ==
    formatted.called => Formats(formatted.proof, formatted.out)

(***************************************************************************)
(* ShadowDropProver properties                                             *)
(***************************************************************************)
Executed(g) == prover.gen[g].pc \in {"executing", "proving", "done", "failed"}

\* generateProof executed the circuit only after an initialize call had
\* completed successfully.
ExecutesOnlyInitialized ==
    \A g \in ProofCallIds : Executed(g) => \E c \in InitCallIds : prover.init[c].pc = "done"

\* While no initialize call has succeeded, isInitialized() is false.
FailedLeavesUninitialized ==
    (\A c \in InitCallIds : prover.init[c].pc # "done") => ~isInitialized

ConstructedOnce == prover.noirBuilt <= 1 /\ prover.backendBuilt <= 1

\* C28: on one ShadowDropProver, in every interleaving of initialize and
\* generateProof calls, generateProof executes the circuit only if an
\* initialize call has completed successfully, isInitialized() is false
\* while initialize has only failed, and the Noir instance and the backend
\* are constructed at most once, also when two initialize calls overlap.
C28_ProverLifecycle ==
    ExecutesOnlyInitialized /\ FailedLeavesUninitialized /\ ConstructedOnce

(***************************************************************************)
(* handleClaim: termination and the disabled button                        *)
(***************************************************************************)
\* A step of the invocation of c: an awaited call of handleClaim settles.
InvocationStep(c) ==
    \/ ProofFails(c)
    \/ ProofReturns(c)
    \/ SignApproved(c)
    \/ SignRejected(c)
    \/ TxDropped(c)
    \/ LedgerExecute(c)
    \/ RpcReturns(c)
    \/ MarkClaimedReturns(c)
    \/ MarkClaimedFails(c)

\* The claim protocol where every awaited call of an invocation settles:
\* the prover and the store answer or fail, the wallet prompt is answered,
\* the submission is confirmed, rejected or dropped.
SpecSettling == Init /\ [][Next]_vars /\ \A c \in Clients : WF_vars(InvocationStep(c))

\* C29: while an invocation of handleClaim is in flight loading is true and
\* claimingId is the campaign, so the Claim buttons are disabled and no
\* step starts a second claim from the component; every step that ends the
\* invocation, whatever its outcome, leaves loading false and claimingId
\* null; and when its awaited calls settle every invocation ends so.
C29_EndsUnloadedAndNoSecondClaim ==
    /\ [](\A c \in Clients : pc[c] # "idle" => (loading[c] /\ claimingId[c] # NoCampaign))
    /\ [][ \A c \in Clients :
               /\ pc[c] # "idle" => \A k \in Campaigns : ~StartClaim(c, k)
               /\ (pc[c] # "idle" /\ pc'[c] = "idle") =>
                      (~loading'[c] /\ claimingId'[c] = NoCampaign) ]_vars
    /\ \A c \in Clients :
           (pc[c] # "idle") ~> (pc[c] = "idle" /\ ~loading[c] /\ claimingId[c] = NoCampaign)

\* One invocation has ended in success and another, of the other client,
\* in a failed proof: both components are idle, not loading, and claim
\* nothing.
C29_Witness ==
    /\ success["c1"]
    /\ toast["c2"][1] = "error: Verification Failed"
    /\ \A c \in Clients : pc[c] = "idle" /\ ~loading[c] /\ claimingId[c] = NoCampaign

(***************************************************************************)
(* Deposit and committed amounts                                           *)
(***************************************************************************)
RECURSIVE SumOf(_)
SumOf(amounts) == IF amounts = << >> THEN 0 ELSE Head(amounts) + SumOf(Tail(amounts))

\* C30: for every recipient list with non-negative amounts, the amount
\* handleCreate deposits into the vault, in base units, is at least the sum
\* of the per-recipient base-unit amounts committed in the tree.
C30_DepositCoversCommitted ==
    deposit.created => deposit.lamports >= SumOf(deposit.recipientList)

=============================================================================
